---- MODULE Spec2Model ----
(***************************************************************************)
(* A model of the per-system runtime of seance-rs: the gateway listeners   *)
(* of the member bots, the cross-bot message aggregator with its LRU       *)
(* dedup cache, and the Manager with its autoproxy latch, proxy protocol   *)
(* and presence reconciliation.                                            *)
(*                                                                         *)
(* SpecAgg : chat events -> gateway listeners -> aggregator -> system      *)
(*           channel (src/src/system/aggregator.rs, bot/gateway.rs).       *)
(* SpecMgr : the Manager's event loop (src/src/system/mod.rs) with the     *)
(*           chat service behind its REST clients as environment.          *)
(***************************************************************************)
EXTENDS Integers, Sequences, FiniteSets, TLC

(***************************************************************************)
(* Bounds of the model.                                                    *)
(***************************************************************************)
\* number of members (bots) of the system: config.members.len()
NumMembers == 2
\* messages the reference user posts in a run of the aggregator
MaxMsgs == 5
\* edits the reference user makes in a run of the aggregator
MaxEdits == 1
\* events of the chat service that are not the reference user's
MaxOthers == 1
\* errors of the gateways
MaxErrors == 4
\* attachments of a source message
MaxAttachments == 2
\* GatewayConnected events a run counts
MaxConnects == 3
\* the others act among the first events only: after OthersUntil events at most
OthersUntil == 1

\* the latest timestamp, in ticks, of a message the Manager is sent
MaxTs == 2
\* AutoproxyTimeout timers that may be sleeping at once
MaxTimers == 2
\* timeout_seconds of the configured Latch policy
TimeoutSeconds == 0
\* ticks of a timestamp in one second
TicksPerSecond == 2

\* Option<T>: None is the empty set, Some(v) is {v}
None == {}
Some(v) == {v}
Unwrap(o) == CHOOSE v \in o : TRUE

Members == 0 .. (NumMembers - 1)

\* the ids of the messages the reference user posts
MessageIds == 1 .. MaxMsgs

\* the ids of the messages of everyone else
OtherIds == (MaxMsgs + 1) .. (MaxMsgs + MaxOthers)

(***************************************************************************)
(* State.                                                                  *)
(***************************************************************************)
VARIABLES
    world,          \* the message events of the chat service, in the order they happened
    seen,           \* per bot: how many chat events its gateway has delivered
    rx,             \* AggregatorState.rx/tx: the aggregator's bounded input channel
    message_cache,  \* AggregatorState.message_cache, most recently used first
    agg_pc,         \* position of the aggregator task: "recv" or "send_self"
    agg_pending,    \* the event the aggregator is resubmitting to its own input
    sent_new,       \* per message id: the NewMessage events sent to the Manager, oldest first
    sent_refetch,   \* the RefetchMessage events sent to the Manager
    refetch_queue,  \* the RefetchMessage events the Manager has not handled yet
    config,         \* Manager.config: the members and the autoproxy policy
    latch_state,    \* Manager.latch_state: Option<(MemberId, Timestamp)>
    last_presence,  \* Manager.last_presence: per member, Option<Status>
    last_status,    \* BotConfig.last_status: per bot, the status of its gateway
    presence_log,   \* the UpdatePresence commands sent for the event handled last
    timers,         \* timestamps of the sleeping AutoproxyTimeout tasks, oldest first
    resendable,     \* the message that scheduled the newest sleeping timer
    mgr_pc,         \* the Manager's event loop: "running", "panicked" or "returned"
    source_visible, \* the message handled last is visible in the channel
    duplicate_visible, \* the copy a bot made when the message was handled is visible
    rest_log,       \* the REST calls of the event the Manager handled last
    handled,        \* the event the Manager handled last
    gateways,       \* per bot: its gateway listener is "listening" or "closed"
    system_channel, \* the gateway events sent to the Manager and not yet received
    state_lock,     \* who holds the RwLock of AggregatorState: "free" or "aggregator"
    api_call,       \* the call of get_sender or set_system_handler that has not returned
    shard_lock,     \* per bot: who holds the Mutex of its Shard: "free" or "listener"
    status_call,    \* the call of Gateway::set_status that has not returned
    num_connected,  \* the local num_connected of start_clients
    startup_tasks,  \* how many tasks sending AllGatewaysConnected were spawned
    connected_members, \* the members whose last event handled is GatewayConnected
    call            \* the pure function applied last, with its arguments and result

aggVars == <<world, seen, rx, message_cache, agg_pc, agg_pending, sent_new, sent_refetch,
             refetch_queue>>

mgrVars == <<config, latch_state, last_presence, last_status, presence_log, timers, resendable, mgr_pc,
             source_visible, duplicate_visible, rest_log, handled>>

lockVars == <<state_lock, api_call, shard_lock, status_call>>

connVars == <<num_connected, startup_tasks, connected_members>>

gwVars == <<gateways, system_channel, lockVars, connVars>>

vars == <<world, seen, rx, message_cache, agg_pc, agg_pending, sent_new, sent_refetch,
          refetch_queue,
          config, latch_state, last_presence, last_status, presence_log, timers,
          resendable, mgr_pc,
          source_visible, duplicate_visible, rest_log, handled, gateways,
          system_channel, state_lock, api_call, shard_lock, status_call,
          num_connected, startup_tasks, connected_members, call>>

(***************************************************************************)
(* Messages and timestamps (types.rs).                                     *)
(***************************************************************************)
\* UserId: the user id of the bot of a member, and a user that is no bot of
\* the system
UserIdOf(member_id) == <<"bot", member_id>>
Stranger == <<"stranger">>

\* the user the system proxies for
ReferenceUser == <<"reference">>

\* FullMessage: the fields of twilight's Message the runtime reads
FullMessage(id, author, timestamp, edited_timestamp, content) ==
    [id |-> id, author |-> author, timestamp |-> timestamp,
     edited_timestamp |-> edited_timestamp, content |-> content]

\* PartialMessage: the fields of MessageUpdate the runtime reads
PartialMessage(id, author, edited_timestamp, content) ==
    [id |-> id, author |-> author, edited_timestamp |-> edited_timestamp,
     content |-> content]

\* Message::Complete(FullMessage, MemberId)
Complete(message, member_id) ==
    [kind |-> "Complete", message |-> message, member_id |-> member_id]

\* Message::Partial(PartialMessage, MemberId)
Partial(partial, member_id) ==
    [kind |-> "Partial", message |-> partial, member_id |-> member_id]

\* MessageEvent = (Timestamp, Message)
MessageEvent(timestamp, message) == [timestamp |-> timestamp, message |-> message]

\* SystemEvent::NewMessage(Timestamp, FullMessage, MemberId)
NewMessage(timestamp, message, member_id) ==
    [kind |-> "NewMessage", timestamp |-> timestamp,
     message |-> message, member_id |-> member_id]

\* SystemEvent::RefetchMessage(MemberId, MessageId, ChannelId)
RefetchMessage(member_id, message_id) ==
    [kind |-> "RefetchMessage", member_id |-> member_id, message_id |-> message_id]

\* edited_timestamp.unwrap_or(timestamp)
EffectiveTimestamp(m) ==
    IF m.edited_timestamp # None THEN Unwrap(m.edited_timestamp) ELSE m.timestamp

(***************************************************************************)
(* lru::LruCache, as a sequence of entries, most recently used first.      *)
(***************************************************************************)
\* MessageAggregator::new: channel and cache both hold system_size * 2
Capacity == NumMembers * 2

RECURSIVE IndexOf(_, _, _)
IndexOf(cache, id, i) ==
    IF i > Len(cache) THEN 0
    ELSE IF cache[i].id = id THEN i
    ELSE IndexOf(cache, id, i + 1)

Without(cache, i) == SubSeq(cache, 1, i - 1) \o SubSeq(cache, i + 1, Len(cache))

\* LruCache::get: the value (None on a miss)
CacheLookup(cache, id) ==
    LET i == IndexOf(cache, id, 1)
    IN  IF i = 0 THEN None ELSE Some(cache[i])

\* LruCache::get: a hit makes the entry the most recently used
CacheTouch(cache, id) ==
    LET i == IndexOf(cache, id, 1)
    IN  IF i = 0 THEN cache ELSE <<cache[i]>> \o Without(cache, i)

\* LruCache::put: replace in place or insert, evicting the least recently used
\* entry when the cache is full
CachePut(cache, id, message, member_id) ==
    LET i == IndexOf(cache, id, 1)
        entry == [id |-> id, message |-> message, member_id |-> member_id]
    IN  IF i # 0 THEN <<entry>> \o Without(cache, i)
        ELSE IF Len(cache) >= Capacity
             THEN <<entry>> \o SubSeq(cache, 1, Capacity - 1)
             ELSE <<entry>> \o cache

(***************************************************************************)
(* Configuration (config.rs): the members and the autoproxy policy.        *)
(***************************************************************************)
\* Member: message_pattern is the literal prefix of "^<prefix>(?P<content>.*)$"
Prefixes == <<"A", "B", "C">>

Member(name, i) == [name |-> name, message_pattern |-> <<Prefixes[i], ":">>]

\* members with a name each, and members that share one name
DistinctNames == [i \in 1 .. NumMembers |-> Member(Prefixes[i], i)]
SameName == [i \in 1 .. NumMembers |-> Member("B", i)]

\* AutoproxyConfig, and None for a system without the autoproxy key
NoPolicy == [mode |-> "none"]
MemberPolicy(name) == [mode |-> "member", name |-> name]
LatchPolicy(scope, timeout_seconds, presence_indicator) ==
    [mode |-> "latch", scope |-> scope, timeout_seconds |-> timeout_seconds,
     presence_indicator |-> presence_indicator]

\* System
System(member_list, policy) == [members |-> member_list, autoproxy |-> policy]

\* the systems of the configuration files
Systems ==
    {System(DistinctNames, NoPolicy),
     System(DistinctNames, LatchPolicy("Global", TimeoutSeconds, TRUE)),
     System(DistinctNames, LatchPolicy("Server", TimeoutSeconds, FALSE)),
     System(DistinctNames, MemberPolicy("B")),
     System(SameName, MemberPolicy("B"))}

\* Config::load does not panic: under a Member policy all members carry the name
load(system) ==
    system.autoproxy.mode = "member" =>
        \A i \in DOMAIN system.members : system.members[i].name = system.autoproxy.name

\* the systems a Manager is created for
Configs == {system \in Systems : load(system)}

\* config.members: member i is members[i + 1]
members == config.members

\* config.autoproxy
autoproxy == config.autoproxy

(***************************************************************************)
(* Message contents, as sequences of characters.                           *)
(***************************************************************************)
Backslash == "\\"

Contents ==
    {<<Backslash, Backslash>>,          \* the latch clear
     <<Backslash, "r">>,                \* an escaped message
     <<Backslash, Backslash, "r">>,     \* an escaped message starting with two backslashes
     <<"!", "p", "a", "n", "i", "c">>,
     <<"!", "e">>,                      \* a command
     <<"A", ":", "h">>,                 \* matches the pattern of member 0
     <<"b", ":", "h">>,                 \* matches the pattern of member 1
     <<"A", ":">>,                      \* matches the pattern of member 0, nothing captured
     <<"h">>}                           \* matches no pattern

\* str::starts_with
StartsWith(content, prefix) ==
    /\ Len(content) >= Len(prefix)
    /\ SubSeq(content, 1, Len(prefix)) = prefix

\* the case folding of RegexBuilder::case_insensitive(true)
Fold(c) == IF c = "a" THEN "A" ELSE IF c = "b" THEN "B" ELSE c
FoldAll(content) == [i \in 1 .. Len(content) |-> Fold(content[i])]

\* Member::matches_proxy_prefix: the content capture of the member's pattern
matches_proxy_prefix(member, content) ==
    IF StartsWith(FoldAll(content), FoldAll(member.message_pattern))
    THEN Some(SubSeq(content, Len(member.message_pattern) + 1, Len(content)))
    ELSE None

\* members.iter().enumerate().find_map(..): the first member whose pattern matches
RECURSIVE match_prefix(_, _)
match_prefix(content, member_id) ==
    IF member_id >= Len(members) THEN None
    ELSE LET matched == matches_proxy_prefix(members[member_id + 1], content)
         IN  IF matched # None
             THEN Some([member_id |-> member_id, content |-> Unwrap(matched)])
             ELSE match_prefix(content, member_id + 1)

\* Manager::find_member_by_name: the first member with that name
RECURSIVE find_member_by_name(_, _)
find_member_by_name(name, member_id) ==
    IF member_id >= Len(members) THEN None
    ELSE IF members[member_id + 1].name = name THEN Some(member_id)
    ELSE find_member_by_name(name, member_id + 1)

(***************************************************************************)
(* The REST requests of the Manager (mod.rs), with the chat service as     *)
(* environment: the outcome of each request is the service's choice.       *)
(***************************************************************************)
\* outcomes of duplicate_message: Ok, or one of the MessageDuplicateError kinds
\* ("empty" is MessageCreate with the text "Cannot send an empty message",
\* "create_error" any other MessageCreate, and "deserialize" is
\* ResponseDeserialization: the create request itself succeeded)
DuplicateOutcomes == {"ok", "empty", "create_error", "deserialize"}

\* outcomes of client.delete_message
DeleteOutcomes == {"ok", "error"}

\* what the service can answer: only a message without content is refused as
\* empty, and it is never created; only a message that is present is deleted
ServiceAllows(content, dup, del, present) ==
    /\ (dup = "empty") => (content = <<>>)
    /\ (content = <<>>) => (dup \in {"empty", "create_error"})
    /\ (dup \in {"ok", "empty"} /\ del = "ok") => present

CreateCall(member, content, result) ==
    [op |-> "create", member |-> member, content |-> content, result |-> result]
DeleteCall(member, result) ==
    [op |-> "delete_source", member |-> member, content |-> <<>>, result |-> result]

(***************************************************************************)
(* Client (bot/client.rs): delete_message and duplicate_message, with the  *)
(* outcome of every request as input.                                      *)
(***************************************************************************)
\* a panic: unwrap of None or of Err
Aborted == [variant |-> "Aborted"]

\* Result
Ok(value) == [variant |-> "Ok", value |-> value]
Err(error) == [variant |-> "Err", error |-> error]

\* the service's error code for "Missing Permissions"
MissingPermissions == 50013

\* RequestReactionType::Unicode of the lock emoji
LockEmoji == "lock"

\* twilight_http errors: ErrorType::Response with an ApiError (General has a
\* code, Message and Ratelimited have none), or another ErrorType
GeneralError(code) == [type |-> "Response", error |-> "General", code |-> Some(code)]
TwiErrors ==
    {GeneralError(MissingPermissions), GeneralError(MissingPermissions + 1),
     [type |-> "Response", error |-> "Message", code |-> None],
     [type |-> "Response", error |-> "Ratelimited", code |-> None],
     [type |-> "RequestTimedOut", error |-> "none", code |-> None]}

\* outcomes of the service's delete request
DeleteResults == {Ok("deleted")} \cup {Err(err) : err \in TwiErrors}

\* a delete_message that reacts to every error of the delete
delete_message_ReactsToAnyError(delete_result) ==
    [result    |-> IF delete_result.variant = "Err" THEN delete_result ELSE Ok("unit"),
     reactions |-> IF delete_result.variant = "Err" THEN <<LockEmoji>> ELSE <<>>]

\* Client::delete_message: the result it returns and the reactions it asks
\* the service to add to the message (react_message ignores their outcome)
delete_message(delete_result) ==
    [result    |-> IF delete_result.variant = "Err" THEN delete_result ELSE Ok("unit"),
     reactions |-> IF /\ delete_result.variant = "Err"
                      /\ delete_result.error.type = "Response"
                      /\ delete_result.error.error = "General"
                      /\ delete_result.error.code = Some(MissingPermissions)
                   THEN <<LockEmoji>> ELSE <<>>]

\* the source messages duplicate_message is applied to: up to MaxAttachments
\* attachments; a regular message, a reply, or a reply whose referenced
\* message is absent
SourceMessages ==
    {[attachments |-> [i \in 1 .. n |-> i], kind |-> kind, referenced_message |-> referenced] :
        n \in 0 .. MaxAttachments, kind \in {"Regular", "Reply"}, referenced \in BOOLEAN}

\* the attachments whose download (reqwest::get, bytes) succeeded, in order
Fetched(message, fetch_ok) ==
    SelectSeq(message.attachments, LAMBDA attachment : attachment \in fetch_ok)

\* the create request duplicate_message has built when it awaits the service
CreateRequest(message, content, fetch_ok) ==
    [content |-> content, attachments |-> Fetched(message, fetch_ok),
     reply |-> message.kind = "Reply"]

\* the service refuses a message without content and without attachments
\* ("Cannot send an empty message"), and nothing else, as empty
ServiceAnswers(request, service) ==
    LET empty == request.content = <<>> /\ request.attachments = <<>>
    IN  /\ (service = "empty") => empty
        /\ empty => (service \in {"empty", "create_error"})

\* a duplicate_message that returns the error of an attachment it could not
\* fetch
duplicate_message_PropagatesFetchError(message, content, fetch_ok, content_valid, attachments_valid, service) ==
    LET request == CreateRequest(message, content, fetch_ok)
    IN  IF ~content_valid
        THEN [result |-> Err("MessageValidation"), request |-> None]
        ELSE IF message.kind = "Reply" /\ ~message.referenced_message
        THEN [result |-> Aborted, request |-> None]
        ELSE IF Len(request.attachments) < Len(message.attachments)
        THEN [result |-> Err("AttachmentRequest"), request |-> None]
        ELSE IF Len(request.attachments) > 0 /\ ~attachments_valid
        THEN [result |-> Err("MessageValidation"), request |-> None]
        ELSE [result |-> IF service = "ok" THEN Ok(request)
                         ELSE IF service = "deserialize" THEN Err("ResponseDeserialization")
                         ELSE Err("MessageCreate"),
              request |-> Some(request)]

\* Client::duplicate_message: its result (the new message, a
\* MessageDuplicateError, or a panic) and the create request sent, if any.
\* content_valid and attachments_valid are the outcomes of the validation of
\* the request, service the answer to it
duplicate_message(message, content, fetch_ok, content_valid, attachments_valid, service) ==
    LET request == CreateRequest(message, content, fetch_ok)
    IN  IF ~content_valid
        THEN [result |-> Err("MessageValidation"), request |-> None]
        ELSE IF message.kind = "Reply" /\ ~message.referenced_message
        THEN [result |-> Aborted, request |-> None]
        ELSE IF Len(request.attachments) > 0 /\ ~attachments_valid
        THEN [result |-> Err("MessageValidation"), request |-> None]
        ELSE [result |-> IF service = "ok" THEN Ok(request)
                         ELSE IF service = "deserialize" THEN Err("ResponseDeserialization")
                         ELSE Err("MessageCreate"),
              request |-> Some(request)]

(***************************************************************************)
(* Manager::proxy_message (mod.rs).  The result: the REST calls made,      *)
(* whether the Manager panicked, whether duplicate and delete both         *)
(* succeeded, whether the source message was deleted and whether the       *)
(* duplicate was created.                                                  *)
(***************************************************************************)
\* client.delete_message(..).await.expect("Could not delete message")
DeleteSourceOrPanic(member, del) ==
    [calls    |-> <<DeleteCall(member, del)>>,
     panicked |-> del # "ok",
     deleted  |-> del = "ok"]

\* a proxy_message that treats every MessageCreate error as the empty message
proxy_message_AnyCreateError(member, content, dup, del) ==
    LET create == <<CreateCall(member, content, dup)>>
        created == dup \in {"ok", "deserialize"}
        deleted == DeleteSourceOrPanic(member, del)
    IN  IF dup \in {"ok", "empty", "create_error"}
        THEN [calls      |-> create \o deleted.calls,
              panicked   |-> deleted.panicked,
              ok         |-> dup = "ok" /\ ~deleted.panicked,
              deleted    |-> deleted.deleted,
              duplicated |-> created]
        ELSE [calls      |-> create,
              panicked   |-> FALSE,
              ok         |-> FALSE,
              deleted    |-> FALSE,
              duplicated |-> created]

proxy_message(member, content, dup, del) ==
    LET create == <<CreateCall(member, content, dup)>>
        \* the service has created the message
        created == dup \in {"ok", "deserialize"}
        deleted == DeleteSourceOrPanic(member, del)
    IN  IF dup = "ok" \/ dup = "empty"
        THEN [calls      |-> create \o deleted.calls,
              panicked   |-> deleted.panicked,
              ok         |-> dup = "ok" /\ ~deleted.panicked,
              deleted    |-> deleted.deleted,
              duplicated |-> created]
        ELSE [calls      |-> create,
              panicked   |-> FALSE,
              ok         |-> FALSE,
              deleted    |-> FALSE,
              duplicated |-> created]

(***************************************************************************)
(* Presence reconciliation (mod.rs, bot/gateway.rs).                       *)
(***************************************************************************)
\* a table that shows every member Online while a latch is present
DesiredStatus_OnlineWhileLatched(member_id, policy, latch) ==
    IF policy.mode = "none" THEN "Invisible"
    ELSE IF policy.mode = "member"
         THEN IF members[member_id + 1].name = policy.name THEN "Online" ELSE "Invisible"
    ELSE IF policy.scope = "Server" THEN "Invisible"
    ELSE IF ~policy.presence_indicator THEN "Invisible"
    ELSE IF latch # None THEN "Online"
    ELSE "Invisible"

\* the status update_status_of_system wants for a member
DesiredStatus(member_id, policy, latch) ==
    IF policy.mode = "none" THEN "Invisible"
    ELSE IF policy.mode = "member"
         THEN IF members[member_id + 1].name = policy.name THEN "Online" ELSE "Invisible"
    ELSE IF policy.scope = "Server" THEN "Invisible"
    ELSE IF ~policy.presence_indicator THEN "Invisible"
    ELSE IF latch # None /\ Unwrap(latch).member = member_id THEN "Online"
    ELSE "Invisible"

\* last_presence.get(&member).unwrap_or(&Status::Offline)
LastPresence(presence, member_id) ==
    IF presence[member_id] = None THEN "Offline" ELSE Unwrap(presence[member_id])

\* update_status_of_system: last_presence after update_status_of_member has
\* run for every member (a gateway exists for every member)
update_status_of_system(presence, policy, latch) ==
    [member_id \in Members |->
        IF DesiredStatus(member_id, policy, latch) = LastPresence(presence, member_id)
        THEN presence[member_id]
        ELSE Some(DesiredStatus(member_id, policy, latch))]

\* a set_status that sends the command whatever the status sent last
set_status_Always(last, status) ==
    [sent |-> {status}, last_status |-> status]

\* Gateway::set_status: the statuses sent (none if the status is the one of
\* last_status) and last_status afterwards
set_status(last, status) ==
    IF status = last
    THEN [sent |-> {}, last_status |-> last]
    ELSE [sent |-> {status}, last_status |-> status]

\* update_status_of_member calls gateway.set_status for this member
StatusChanges(presence, policy, latch, member_id) ==
    DesiredStatus(member_id, policy, latch) # LastPresence(presence, member_id)

\* update_status_of_system: last_status of the bots afterwards
GatewayStatuses(statuses, presence, policy, latch) ==
    [member_id \in Members |->
        IF StatusChanges(presence, policy, latch, member_id)
        THEN set_status(statuses[member_id],
                        DesiredStatus(member_id, policy, latch)).last_status
        ELSE statuses[member_id]]

\* update_status_of_system: the UpdatePresence commands sent
PresenceUpdates(statuses, presence, policy, latch) ==
    {update \in [member : Members, status : {"Online", "Invisible"}] :
        /\ StatusChanges(presence, policy, latch, update.member)
        /\ update.status \in
              set_status(statuses[update.member],
                         DesiredStatus(update.member, policy, latch)).sent}

\* self.update_status_of_system().await
Reconcile(latch) ==
    /\ last_presence' = update_status_of_system(last_presence, autoproxy, latch)
    /\ last_status' = GatewayStatuses(last_status, last_presence, autoproxy, latch)
    /\ presence_log' = PresenceUpdates(last_status, last_presence, autoproxy, latch)

\* the handler does not reconcile the presence
NoPresenceUpdate ==
    /\ presence_log' = {}
    /\ UNCHANGED <<last_presence, last_status>>

(***************************************************************************)
(* Manager::handle_message (mod.rs).                                       *)
(***************************************************************************)
Latched(member, timestamp) == Some([member |-> member, timestamp |-> timestamp])

\* Timestamp::as_secs: a timestamp counts ticks (microseconds in the library),
\* and the division truncates
as_secs(timestamp) == timestamp \div TicksPerSecond

\* a timer with this timestamp is sleeping
Sleeping(timestamp) == \E i \in DOMAIN timers : timers[i] = timestamp

\* the message that scheduled a timer, and whether it is still in the channel
Resendable(timestamp, content, visible) ==
    Some([timestamp |-> timestamp, content |-> content, source_visible |-> visible])

\* messages differ in their timestamps: a message that arrives with the
\* timestamp of a sleeping timer is the message that scheduled the timer, sent
\* a second time by the aggregator
SameMessage(timestamp, content) ==
    Sleeping(timestamp) =>
        /\ resendable # None
        /\ Unwrap(resendable).timestamp = timestamp
        /\ Unwrap(resendable).content = content

\* the message is in the channel when the Manager handles it
SourcePresent(timestamp) ==
    Sleeping(timestamp) => Unwrap(resendable).source_visible

\* the event the Manager handles, as recorded in handled
Handled(event, timestamp, content) ==
    [event |-> event, timestamp |-> timestamp, content |-> content]

\* an update that latches under every policy
update_autoproxy_state_after_message_AnyPolicy(policy, latch, member, timestamp) == Latched(member, timestamp)

\* update_autoproxy_state_after_message: the latch afterwards
update_autoproxy_state_after_message(policy, latch, member, timestamp) ==
    IF policy.mode = "latch" THEN Latched(member, timestamp) ELSE latch

\* update_autoproxy_state_after_message: the sleeping timers afterwards
SpawnTimeout(policy, sleeping, timestamp) ==
    IF policy.mode = "latch" THEN Append(sleeping, timestamp) ELSE sleeping

\* a latch check without the timeout
LatchActive_NoTimeout(policy, latch, timestamp) == latch # None

\* the latch check of the Latch arm: time_since_last <= timeout_seconds
LatchActive(policy, latch, timestamp) ==
    /\ latch # None
    /\ as_secs(timestamp) - as_secs(Unwrap(latch).timestamp) <= policy.timeout_seconds

\* a routing that proxies for the Member policy only while a latch is present
Route_MemberPolicyNeedsLatch(content, timestamp, policy, latch) ==
    LET prefix == match_prefix(content, 0)
    IN  IF content = <<"!", "p", "a", "n", "i", "c">> THEN [arm |-> "panic"]
        ELSE IF StartsWith(content, <<Backslash>>)
             THEN IF content = <<Backslash, Backslash>> THEN [arm |-> "latch_clear"]
                  ELSE IF StartsWith(content, <<Backslash, Backslash>>)
                       THEN [arm |-> "soft_clear"]
                       ELSE [arm |-> "escape"]
        ELSE IF prefix # None
             THEN [arm |-> "prefix", member |-> Unwrap(prefix).member_id,
                   content |-> Unwrap(prefix).content]
        ELSE IF policy.mode = "member" /\ latch # None
             THEN IF find_member_by_name(policy.name, 0) = None
                  THEN [arm |-> "panic"]
                  ELSE [arm |-> "member",
                        member |-> Unwrap(find_member_by_name(policy.name, 0)),
                        content |-> content]
        ELSE IF policy.mode = "latch" /\ LatchActive(policy, latch, timestamp)
             THEN [arm |-> "latch", member |-> Unwrap(latch).member, content |-> content]
        ELSE [arm |-> "none"]

\* which arm of handle_message a message takes, with the member and the content
\* it proxies
Route(content, timestamp, policy, latch) ==
    LET prefix == match_prefix(content, 0)
    IN  IF content = <<"!", "p", "a", "n", "i", "c">> THEN [arm |-> "panic"]
        ELSE IF StartsWith(content, <<Backslash>>)
             THEN IF content = <<Backslash, Backslash>> THEN [arm |-> "latch_clear"]
                  ELSE IF StartsWith(content, <<Backslash, Backslash>>)
                       THEN [arm |-> "soft_clear"]
                       ELSE [arm |-> "escape"]
        ELSE IF prefix # None
             THEN [arm |-> "prefix", member |-> Unwrap(prefix).member_id,
                   content |-> Unwrap(prefix).content]
        ELSE IF policy.mode = "member"
             THEN IF find_member_by_name(policy.name, 0) = None
                  THEN [arm |-> "panic"]
                  ELSE [arm |-> "member",
                        member |-> Unwrap(find_member_by_name(policy.name, 0)),
                        content |-> content]
        ELSE IF policy.mode = "latch" /\ LatchActive(policy, latch, timestamp)
             THEN [arm |-> "latch", member |-> Unwrap(latch).member, content |-> content]
        ELSE [arm |-> "none"]

\* the inputs an arm does not read are fixed, so that each behaviour of the
\* handler is generated once
InputsRead(route, latch, dup, del, first_client) ==
    LET proxies == route.arm \in {"prefix", "member", "latch"}
    IN  /\ ~proxies => dup = "ok"
        /\ (~proxies /\ route.arm # "latch_clear") => del = "ok"
        /\ (proxies /\ dup \notin {"ok", "empty"}) => del = "ok"
        /\ (route.arm # "latch_clear" \/ latch # None) => first_client = 0

\* the event loop is over: a panic in the handler
Panic ==
    /\ mgr_pc' = "panicked"
    /\ NoPresenceUpdate /\ UNCHANGED <<latch_state, timers, resendable>>

\* the "\\" arm: delete the message through the latched member's client, or
\* through the first client of the map, and clear the latch
HandleLatchClear(timestamp, del, first_client) ==
    LET member == IF latch_state # None THEN Unwrap(latch_state).member ELSE first_client
        deleted == DeleteSourceOrPanic(member, del)
    IN  /\ ServiceAllows(<<Backslash, Backslash>>, "ok", del, SourcePresent(timestamp))
        /\ rest_log' = deleted.calls
        /\ source_visible' = (SourcePresent(timestamp) /\ ~deleted.deleted)
        /\ duplicate_visible' = FALSE
        /\ IF deleted.panicked
           THEN Panic
           ELSE /\ latch_state' = None
                /\ NoPresenceUpdate /\ UNCHANGED <<timers, resendable, mgr_pc>>

\* the arms that proxy: prefix match, Member policy, active latch
HandleProxy(timestamp, content, route, dup, del) ==
    LET proxied == proxy_message(route.member, route.content, dup, del)
        latch == update_autoproxy_state_after_message(autoproxy, latch_state,
                                                      route.member, timestamp)
        visible == SourcePresent(timestamp) /\ ~proxied.deleted
    IN  /\ ServiceAllows(route.content, dup, del, SourcePresent(timestamp))
        /\ rest_log' = proxied.calls
        /\ source_visible' = visible
        /\ duplicate_visible' = proxied.duplicated
        /\ IF proxied.panicked
           THEN Panic
           ELSE IF route.arm = "member"
           THEN NoPresenceUpdate /\ UNCHANGED <<latch_state, timers, resendable, mgr_pc>>
           ELSE /\ latch_state' = latch
                /\ timers' = SpawnTimeout(autoproxy, timers, timestamp)
                /\ resendable' = IF autoproxy.mode = "latch"
                                 THEN Resendable(timestamp, content, visible)
                                 ELSE resendable
                /\ Reconcile(latch)
                /\ UNCHANGED mgr_pc

\* a message that needs no request
NoRequest(timestamp) ==
    /\ rest_log' = <<>>
    /\ source_visible' = SourcePresent(timestamp)
    /\ duplicate_visible' = FALSE

\* SystemEvent::NewMessage: handle_message(message, timestamp)
handle_message(timestamp, content, dup, del, first_client) ==
    LET route == Route(content, timestamp, autoproxy, latch_state)
    IN  /\ mgr_pc = "running"
        /\ Len(timers) < MaxTimers
        /\ SameMessage(timestamp, content)
        /\ InputsRead(route, latch_state, dup, del, first_client)
        /\ handled' = Handled("NewMessage", timestamp, content)
        /\ CASE route.arm = "panic" -> Panic /\ NoRequest(timestamp)
             [] route.arm = "latch_clear" -> HandleLatchClear(timestamp, del, first_client)
             [] route.arm = "soft_clear" ->
                  /\ latch_state' = None
                  /\ NoRequest(timestamp)
                  /\ NoPresenceUpdate /\ UNCHANGED <<timers, resendable, mgr_pc>>
             [] route.arm \in {"escape", "none"} ->
                  /\ NoRequest(timestamp)
                  /\ NoPresenceUpdate /\ UNCHANGED <<latch_state, timers, resendable, mgr_pc>>
             [] OTHER -> HandleProxy(timestamp, content, route, dup, del)
        /\ UNCHANGED <<config, aggVars, gwVars, call>>

\* the message whose last timer has woken up cannot collide any more
Forget(message, timestamp) ==
    IF message # None /\ Unwrap(message).timestamp = timestamp THEN None ELSE message

\* an AutoproxyTimeout handler that does not compare the timestamps
HandleAutoproxyTimeout_NoCompare ==
    /\ mgr_pc = "running"
    /\ timers # <<>>
    /\ timers' = Tail(timers)
    /\ handled' = Handled("AutoproxyTimeout", Head(timers), <<>>)
    /\ resendable' = IF \E i \in DOMAIN Tail(timers) : Tail(timers)[i] = Head(timers)
                     THEN resendable ELSE Forget(resendable, Head(timers))
    /\ rest_log' = <<>>
    /\ IF latch_state # None
       THEN /\ latch_state' = None
            /\ Reconcile(None)
       ELSE NoPresenceUpdate /\ UNCHANGED <<latch_state>>
    /\ UNCHANGED <<config, mgr_pc, source_visible, duplicate_visible, aggVars, gwVars, call>>

\* SystemEvent::AutoproxyTimeout(time_scheduled): the oldest sleeping timer
\* wakes up (all timers sleep timeout_seconds) and the Manager handles its event
HandleAutoproxyTimeout ==
    /\ mgr_pc = "running"
    /\ timers # <<>>
    /\ timers' = Tail(timers)
    /\ handled' = Handled("AutoproxyTimeout", Head(timers), <<>>)
    /\ resendable' = IF \E i \in DOMAIN Tail(timers) : Tail(timers)[i] = Head(timers)
                     THEN resendable ELSE Forget(resendable, Head(timers))
    /\ rest_log' = <<>>
    /\ LET time_scheduled == Head(timers)
       IN  IF latch_state # None /\ Unwrap(latch_state).timestamp = time_scheduled
           THEN /\ latch_state' = None
                /\ Reconcile(None)
           ELSE NoPresenceUpdate /\ UNCHANGED <<latch_state>>
    /\ UNCHANGED <<config, mgr_pc, source_visible, duplicate_visible, aggVars, gwVars, call>>

\* SystemEvent::GatewayError(member_id, message): the loop returns
GatewayErrorArm ==
    /\ mgr_pc' = "returned"
    /\ handled' = Handled("GatewayError", 0, <<>>)
    /\ rest_log' = <<>>
    /\ NoPresenceUpdate /\ UNCHANGED <<config, latch_state, timers, resendable,
                   source_visible, duplicate_visible>>

\* a GatewayError event arrives at the running Manager
HandleGatewayError ==
    /\ mgr_pc = "running"
    /\ GatewayErrorArm
    /\ UNCHANGED <<aggVars, gwVars, call>>

\* SystemEvent::GatewayClosed(member_id): the Manager logs and counts down
\* the connected gateways. num_connected is a usize: 0 - 1 panics in a build
\* with overflow checks and wraps to usize::MAX without them (-1 stands for
\* usize::MAX: adding 1 gives 0, and it equals no member count)
GatewayClosedArm(member_id) ==
    /\ handled' = Handled("GatewayClosed", 0, <<>>)
    /\ rest_log' = <<>>
    /\ IF num_connected = 0
       THEN \/ mgr_pc' = "panicked" /\ UNCHANGED <<num_connected, connected_members>>
            \/ /\ num_connected' = -1
               /\ connected_members' = connected_members \ {member_id}
               /\ UNCHANGED mgr_pc
       ELSE /\ num_connected' = num_connected - 1
            /\ connected_members' = connected_members \ {member_id}
            /\ UNCHANGED mgr_pc
    /\ NoPresenceUpdate /\ UNCHANGED <<config, latch_state, timers, resendable,
                   source_visible, duplicate_visible, startup_tasks>>

\* SystemEvent::GatewayConnected(member_id): the Manager counts up the
\* connected gateways and, when the count equals the number of members,
\* spawns the task that sends AllGatewaysConnected after five seconds
GatewayConnectedArm(member_id) ==
    /\ handled' = Handled("GatewayConnected", 0, <<>>)
    /\ rest_log' = <<>>
    /\ num_connected' = num_connected + 1
    /\ connected_members' = connected_members \cup {member_id}
    /\ startup_tasks' = IF num_connected + 1 = Len(members)
                        THEN startup_tasks + 1 ELSE startup_tasks
    /\ NoPresenceUpdate /\ UNCHANGED <<config, latch_state, timers, resendable, mgr_pc,
                   source_visible, duplicate_visible>>

\* SystemEvent::GatewayError(MemberId, String), GatewayClosed(MemberId) and
\* GatewayConnected(MemberId)
GatewayError(member_id) == [kind |-> "GatewayError", member_id |-> member_id]
GatewayClosed(member_id) == [kind |-> "GatewayClosed", member_id |-> member_id]
GatewayConnected(member_id) == [kind |-> "GatewayConnected", member_id |-> member_id]

\* the GatewayConnected events the Manager has counted or will count
ConnectsSent ==
    num_connected + Cardinality({i \in DOMAIN system_channel :
                                    system_channel[i].kind = "GatewayConnected"})

\* Gateway::start_listening, Event::Ready: the session of the bot is
\* identified (again, after the shard has reconnected) and the listener
\* sends GatewayConnected to the Manager
GatewayReady(member_id) ==
    /\ gateways[member_id] = "listening"
    /\ Len(system_channel) < MaxErrors
    /\ ConnectsSent < MaxConnects
    /\ system_channel' = Append(system_channel, GatewayConnected(member_id))
    /\ shard_lock' = [shard_lock EXCEPT ![member_id] = "free"]
    /\ UNCHANGED <<aggVars, mgrVars, gateways, state_lock, api_call, status_call,
                   connVars, call>>

\* a listener that goes on after a fatal error
GatewayFails_KeepsListening(member_id, fatal) ==
    /\ gateways[member_id] = "listening"
    /\ Len(system_channel) < MaxErrors
    /\ system_channel' = system_channel \o <<GatewayError(member_id)>> \o
                             (IF fatal THEN <<GatewayClosed(member_id)>> ELSE <<>>)
    /\ gateways' = gateways
    /\ shard_lock' = [shard_lock EXCEPT ![member_id] = "free"]
    /\ UNCHANGED <<aggVars, mgrVars, state_lock, api_call, status_call, connVars, call>>

\* Gateway::start_listening, Err(source): the listener of a bot sends
\* GatewayError to the Manager; after a fatal error it sends GatewayClosed
\* too and returns
GatewayFails(member_id, fatal) ==
    /\ gateways[member_id] = "listening"
    /\ Len(system_channel) < MaxErrors
    /\ system_channel' = system_channel \o <<GatewayError(member_id)>> \o
                             (IF fatal THEN <<GatewayClosed(member_id)>> ELSE <<>>)
    /\ gateways' = IF fatal THEN [gateways EXCEPT ![member_id] = "closed"] ELSE gateways
    /\ shard_lock' = [shard_lock EXCEPT ![member_id] = "free"]
    /\ UNCHANGED <<aggVars, mgrVars, state_lock, api_call, status_call, connVars, call>>

\* system_receiver.recv(): the Manager receives the next gateway event
HandleGatewayEvent ==
    /\ mgr_pc = "running"
    /\ system_channel # <<>>
    /\ system_channel' = Tail(system_channel)
    /\ CASE Head(system_channel).kind = "GatewayError" ->
                GatewayErrorArm /\ UNCHANGED connVars
         [] Head(system_channel).kind = "GatewayClosed" ->
                GatewayClosedArm(Head(system_channel).member_id)
         [] Head(system_channel).kind = "GatewayConnected" ->
                GatewayConnectedArm(Head(system_channel).member_id)
    /\ UNCHANGED <<gateways, lockVars, aggVars, call>>

\* the listeners are started, no gateway event is in the channel
GwInit ==
    /\ gateways = [member_id \in Members |-> "listening"]
    /\ system_channel = <<>>
    /\ state_lock = "free"
    /\ api_call = None
    /\ shard_lock = [member_id \in Members |-> "free"]
    /\ status_call = None
    /\ num_connected = 0
    /\ startup_tasks = 0
    /\ connected_members = {}

GwNext ==
    \/ \E member_id \in Members, fatal \in BOOLEAN : GatewayFails(member_id, fatal)
    \/ HandleGatewayEvent

\* Manager::new, with one of the configured policies
MgrInit ==
    /\ config \in Configs
    /\ latch_state = None
    /\ last_presence = [member_id \in Members |-> None]
    /\ last_status = [member_id \in Members |-> "Online"]
    /\ presence_log = {}
    /\ timers = <<>>
    /\ mgr_pc = "running"
    /\ source_visible = TRUE
    /\ duplicate_visible = FALSE
    /\ rest_log = <<>>
    /\ handled = [event |-> "none", timestamp |-> 0, content |-> <<>>]
    /\ resendable = None

MgrNext ==
    \/ \E timestamp \in 0 .. MaxTs, content \in Contents,
          dup \in DuplicateOutcomes, del \in DeleteOutcomes, first_client \in Members :
            handle_message(timestamp, content, dup, del, first_client)
    \/ HandleAutoproxyTimeout
    \/ HandleGatewayError

(***************************************************************************)
(* The chat service: the reference user posts and edits messages, and so   *)
(* do others. An event carries the author of the message; a MessageUpdate  *)
(* may come without one.                                                   *)
(***************************************************************************)
\* the event is the reference user's
OfReferenceUser(ev) == ev.author = Some(ReferenceUser)

Creates == {i \in 1 .. Len(world) : world[i].kind = "create" /\ OfReferenceUser(world[i])}
Edits == {i \in 1 .. Len(world) : world[i].kind = "edit" /\ OfReferenceUser(world[i])}
Others == {i \in 1 .. Len(world) : ~OfReferenceUser(world[i])}

\* some gateway has delivered everything that happened so far (what happens
\* next is decided only when a listener can observe it)
UpToDate == \E member_id \in Members : seen[member_id] = Len(world)

\* the reference user posts a new message
UserCreate ==
    /\ Cardinality(Creates) < MaxMsgs
    /\ UpToDate
    /\ world' = Append(world, [kind |-> "create", id |-> Cardinality(Creates) + 1,
                               ts |-> Len(world) + 1, author |-> Some(ReferenceUser)])
    /\ UNCHANGED <<seen, rx, message_cache, agg_pc, agg_pending, sent_new, sent_refetch,
                   refetch_queue, mgrVars, gwVars, call>>

\* the reference user edits one of their messages
UserEdit ==
    /\ Cardinality(Edits) < MaxEdits
    /\ UpToDate
    /\ \E id \in 1 .. Cardinality(Creates) :
          world' = Append(world, [kind |-> "edit", id |-> id, ts |-> Len(world) + 1,
                                  author |-> Some(ReferenceUser)])
    /\ UNCHANGED <<seen, rx, message_cache, agg_pc, agg_pending, sent_new, sent_refetch,
                   refetch_queue, mgrVars, gwVars, call>>

\* what others do: a bot of the system posts a message, a stranger edits one
\* of their messages, and the service updates a message without naming the
\* author
OtherEvents ==
    {[kind |-> "create", author |-> Some(UserIdOf(0))],
     [kind |-> "edit", author |-> Some(Stranger)],
     [kind |-> "edit", author |-> None]}

\* someone else posts or edits a message
OtherEvent ==
    /\ Cardinality(Others) < MaxOthers
    /\ Len(world) <= OthersUntil
    /\ UpToDate
    /\ \E other \in OtherEvents :
          world' = Append(world, [kind |-> other.kind,
                                  id |-> MaxMsgs + Cardinality(Others) + 1,
                                  ts |-> Len(world) + 1, author |-> other.author])
    /\ UNCHANGED <<seen, rx, message_cache, agg_pc, agg_pending, sent_new, sent_refetch,
                   refetch_queue, mgrVars, gwVars, call>>

\* the timestamp at which message id was posted
CreatedAt(id) == (CHOOSE i \in Creates : world[i].id = id)

\* the message has been posted since the listeners started
Posted(id) == \E i \in 1 .. Len(world) : world[i].kind = "create" /\ world[i].id = id

\* the last edit of the message by its author, 0 if there is none
RECURSIVE LastEdit(_, _)
LastEdit(id, i) ==
    IF i = 0 THEN 0
    ELSE IF world[i].kind = "edit" /\ world[i].id = id /\ world[i].author # None THEN i
    ELSE LastEdit(id, i - 1)

(***************************************************************************)
(* Gateway::start_listening (bot/gateway.rs): one listener per bot.        *)
(***************************************************************************)
\* the MessageEvent the listener of bot member_id sends for a gateway event
ListenerEvent(member_id, ev) ==
    IF ev.kind = "create"
    THEN MessageEvent(ev.ts,
            Complete(FullMessage(ev.id, Unwrap(ev.author), ev.ts, None, ev.ts), member_id))
    ELSE MessageEvent(ev.ts,
            Partial(PartialMessage(ev.id, ev.author, Some(ev.ts), Some(ev.ts)), member_id))

\* the listener sends the event on: a MessageCreate of the reference user, or
\* a MessageUpdate that names the reference user as author and carries an
\* edited timestamp and a content
Forwards(reference_user_id, ev) ==
    IF ev.kind = "create"
    THEN Unwrap(ev.author) = reference_user_id
    ELSE /\ ev.author # None /\ Unwrap(ev.author) = reference_user_id
         /\ ListenerEvent(0, ev).message.message.edited_timestamp # None
         /\ ListenerEvent(0, ev).message.message.content # None

\* a listener that sends every message event on
StartListening_NoAuthorCheck(member_id) ==
    /\ gateways[member_id] = "listening"
    /\ seen[member_id] < Len(world)
    /\ Len(rx) < Capacity
    /\ rx' = Append(rx, ListenerEvent(member_id, world[seen[member_id] + 1]))
    /\ seen' = [seen EXCEPT ![member_id] = @ + 1]
    /\ shard_lock' = [shard_lock EXCEPT ![member_id] = "free"]
    /\ UNCHANGED <<world, message_cache, agg_pc, agg_pending, sent_new, sent_refetch,
                   refetch_queue, mgrVars, gateways, system_channel, state_lock, api_call,
                   status_call, connVars, call>>

\* the listener of bot member_id receives its next gateway event, drops the
\* guard of the shard and sends the event to the aggregator; a send on the
\* full channel waits
StartListening(member_id) ==
    /\ gateways[member_id] = "listening"
    /\ seen[member_id] < Len(world)
    /\ IF Forwards(ReferenceUser, world[seen[member_id] + 1])
       THEN /\ Len(rx) < Capacity
            /\ rx' = Append(rx, ListenerEvent(member_id, world[seen[member_id] + 1]))
       ELSE UNCHANGED rx
    /\ seen' = [seen EXCEPT ![member_id] = @ + 1]
    /\ shard_lock' = [shard_lock EXCEPT ![member_id] = "free"]
    /\ UNCHANGED <<world, message_cache, agg_pc, agg_pending, sent_new, sent_refetch,
                   refetch_queue, mgrVars, gateways, system_channel, state_lock, api_call,
                   status_call, connVars, call>>

(***************************************************************************)
(* Client::resend_message (bot/client.rs), and the Manager's receipt of a   *)
(* RefetchMessage event (mod.rs).                                          *)
(***************************************************************************)
\* Client::fetch_message: the message as the service has it now; a message
\* older than the listeners is one of the stranger's
fetch_message(message_id) ==
    LET created == CHOOSE i \in 1 .. Len(world) :
                       world[i].kind = "create" /\ world[i].id = message_id
        edited == LastEdit(message_id, Len(world))
    IN  IF ~Posted(message_id) THEN FullMessage(message_id, Stranger, 0, None, 0)
        ELSE FullMessage(message_id, Unwrap(world[created].author), world[created].ts,
                         IF edited = 0 THEN None ELSE Some(world[edited].ts),
                         IF edited = 0 THEN world[created].ts ELSE world[edited].ts)

\* Client::resend_message: the message event the bot of member_id sends to
\* the aggregator
resend_message(member_id, message_id) ==
    LET message == fetch_message(message_id)
    IN  MessageEvent(EffectiveTimestamp(message), Complete(message, member_id))

\* SystemEvent::RefetchMessage(observer, message_id, channel_id): the event
\* loop of the Manager has no arm for it, the event falls to "_ => ()" and is
\* dropped; nothing calls resend_message
HandleRefetchMessage ==
    /\ mgr_pc = "running"
    /\ refetch_queue # <<>>
    /\ refetch_queue' = Tail(refetch_queue)
    /\ UNCHANGED <<world, seen, rx, message_cache, agg_pc, agg_pending, sent_new,
                   sent_refetch, mgrVars, gwVars, call>>

(***************************************************************************)
(* MessageAggregator::start (aggregator.rs): the aggregator task.          *)
(***************************************************************************)
\* the overlay of a partial update on the cached original
Overlay(original_message, current_partial) ==
    [original_message EXCEPT
        !.edited_timestamp = IF current_partial.edited_timestamp # None
                             THEN current_partial.edited_timestamp ELSE @,
        !.content = IF current_partial.content # None
                    THEN Unwrap(current_partial.content) ELSE @]

\* a test that skips only what is older than the cached entry
SkipSending_OnlyOlder(previous, message) ==
    /\ previous # None
    /\ EffectiveTimestamp(Unwrap(previous).message) > EffectiveTimestamp(message)

\* "Should we skip sending": a cached entry that is not older than the message
SkipSending(previous, message) ==
    /\ previous # None
    /\ EffectiveTimestamp(Unwrap(previous).message) >= EffectiveTimestamp(message)

\* a Partial arm that resubmits with the id of the bot that reported the edit
AggPartial_ReportingObserver(timestamp, current_partial, member_id) ==
    LET cache_content == CacheLookup(message_cache, current_partial.id)
    IN  /\ message_cache' = CacheTouch(message_cache, current_partial.id)
        /\ IF cache_content # None
           THEN /\ agg_pc' = "send_self"
                /\ agg_pending' = Some(MessageEvent(timestamp,
                      Complete(Overlay(Unwrap(cache_content).message, current_partial),
                               member_id)))
                /\ UNCHANGED <<sent_new, sent_refetch, refetch_queue>>
           ELSE /\ sent_refetch' = sent_refetch \cup
                      {RefetchMessage(member_id, current_partial.id)}
                /\ refetch_queue' = Append(refetch_queue,
                                           RefetchMessage(member_id, current_partial.id))
                /\ UNCHANGED <<agg_pc, agg_pending, sent_new>>

\* GatewayMessage::Partial arm
AggPartial(timestamp, current_partial, member_id) ==
    LET cache_content == CacheLookup(message_cache, current_partial.id)
    IN  /\ message_cache' = CacheTouch(message_cache, current_partial.id)
        /\ IF cache_content # None
           THEN /\ agg_pc' = "send_self"
                /\ agg_pending' = Some(MessageEvent(timestamp,
                      Complete(Overlay(Unwrap(cache_content).message, current_partial),
                               Unwrap(cache_content).member_id)))
                /\ UNCHANGED <<sent_new, sent_refetch, refetch_queue>>
           ELSE /\ sent_refetch' = sent_refetch \cup
                      {RefetchMessage(member_id, current_partial.id)}
                /\ refetch_queue' = Append(refetch_queue,
                                           RefetchMessage(member_id, current_partial.id))
                /\ UNCHANGED <<agg_pc, agg_pending, sent_new>>

\* GatewayMessage::Complete arm
AggComplete(timestamp, message, member_id) ==
    LET previous_message == CacheLookup(message_cache, message.id)
    IN  IF SkipSending(previous_message, message)
        THEN /\ message_cache' = CacheTouch(message_cache, message.id)
             /\ UNCHANGED <<agg_pc, agg_pending, sent_new, sent_refetch, refetch_queue>>
        ELSE /\ message_cache' = CachePut(message_cache, message.id, message, member_id)
             /\ sent_new' = [sent_new EXCEPT ![message.id] =
                                Append(@, NewMessage(timestamp, message, member_id))]
             /\ UNCHANGED <<agg_pc, agg_pending, sent_refetch, refetch_queue>>

\* one pass of the loop: rx.recv() returns the next event, the write guard of
\* the state is dropped and the event is handled
AggRecv ==
    /\ agg_pc = "recv"
    /\ rx # <<>>
    /\ rx' = Tail(rx)
    /\ LET next_event == Head(rx)
       IN  IF next_event.message.kind = "Partial"
           THEN AggPartial(next_event.timestamp, next_event.message.message,
                           next_event.message.member_id)
           ELSE AggComplete(next_event.timestamp, next_event.message.message,
                            next_event.message.member_id)
    /\ state_lock' = "free"
    /\ UNCHANGED <<world, seen, mgrVars, gateways, system_channel, api_call, shard_lock,
                   status_call, connVars, call>>

\* self_emitter.send(..).await: the overlaid Complete goes back into the
\* aggregator's own input once the channel has room
AggSendSelf ==
    /\ agg_pc = "send_self"
    /\ Len(rx) < Capacity
    /\ rx' = Append(rx, Unwrap(agg_pending))
    /\ agg_pc' = "recv"
    /\ agg_pending' = None
    /\ UNCHANGED <<world, seen, message_cache, sent_new, sent_refetch, refetch_queue,
                   mgrVars, gwVars, call>>

\* the top of the loop with an empty input: the task takes the write guard
\* of the state and awaits rx.recv() inside the guarded expression
AggAwaitInput ==
    /\ agg_pc = "recv"
    /\ rx = <<>>
    /\ state_lock = "free"
    /\ state_lock' = "aggregator"
    /\ UNCHANGED <<aggVars, mgrVars, gateways, system_channel, api_call, shard_lock,
                   status_call, connVars, call>>

\* MessageAggregator::get_sender and set_system_handler
ApiFunctions == {"get_sender", "set_system_handler"}

\* a task calls get_sender or set_system_handler and awaits the lock
ApiCall(function) ==
    /\ api_call = None
    /\ api_call' = Some(function)
    /\ UNCHANGED <<aggVars, mgrVars, gateways, system_channel, state_lock, shard_lock,
                   status_call, connVars, call>>

\* state.read() or state.write() is granted: the call reads tx or stores the
\* emitter, drops the guard and returns
ApiReturn ==
    /\ api_call # None
    /\ state_lock = "free"
    /\ api_call' = None
    /\ UNCHANGED <<aggVars, mgrVars, gateways, system_channel, state_lock, shard_lock,
                   status_call, connVars, call>>

\* Gateway::start_listening, the top of the loop with no event of the gateway
\* at hand: the listener takes the guard of the shard and awaits next_event()
\* inside the guarded expression
ListenerAwaitEvent(member_id) ==
    /\ gateways[member_id] = "listening"
    /\ seen[member_id] = Len(world)
    /\ shard_lock[member_id] = "free"
    /\ shard_lock' = [shard_lock EXCEPT ![member_id] = "listener"]
    /\ UNCHANGED <<aggVars, mgrVars, gateways, system_channel, state_lock, api_call,
                   status_call, connVars, call>>

\* Status
Statuses == {"Online", "Invisible"}

\* the Manager calls Gateway::set_status(status) of a bot
SetStatusBegin(member_id, status) ==
    /\ status_call = None
    /\ status_call' = Some([member_id |-> member_id, status |-> status])
    /\ UNCHANGED <<aggVars, mgrVars, gateways, system_channel, state_lock, api_call,
                   shard_lock, connVars, call>>

\* Gateway::set_status returns: at once when the status is the last one
\* sent, else after shard.lock() is granted, the command sent and
\* last_status written
SetStatusEnd ==
    /\ status_call # None
    /\ LET member_id == Unwrap(status_call).member_id
           status == Unwrap(status_call).status
       IN  /\ status # last_status[member_id] => shard_lock[member_id] = "free"
           /\ last_status' = [last_status EXCEPT ![member_id] = status]
    /\ status_call' = None
    /\ UNCHANGED <<aggVars, config, latch_state, last_presence, presence_log, timers,
                   resendable, mgr_pc, source_visible, duplicate_visible, rest_log, handled,
                   gateways, system_channel, state_lock, api_call, shard_lock, connVars,
                   call>>

AggInit ==
    /\ world = <<>>
    /\ seen = [m \in Members |-> 0]
    /\ rx = <<>>
    /\ message_cache = <<>>
    /\ agg_pc = "recv"
    /\ agg_pending = None
    /\ sent_new = [id \in MessageIds \cup OtherIds |-> <<>>]
    /\ sent_refetch = {}
    /\ refetch_queue = <<>>

AggNext ==
    \/ UserCreate
    \/ UserEdit
    \/ OtherEvent
    \/ \E member_id \in Members : StartListening(member_id)
    \/ AggRecv
    \/ AggSendSelf
    \/ HandleRefetchMessage

(***************************************************************************)
(* MessageParser (message_parser.rs).  A result is a ParsedMessage, or     *)
(* Aborted when the parser panics.                                         *)
(***************************************************************************)
\* ParsedMessage
LatchClear(member_id) == [variant |-> "LatchClear", member_id |-> member_id]
UnproxiedMessage == [variant |-> "UnproxiedMessage"]
Command(command) == [variant |-> "Command", command |-> command]
ProxiedMessage(member_id, message_content, latch) ==
    [variant |-> "ProxiedMessage", member_id |-> member_id,
     message_content |-> message_content, latch |-> latch]
SetProxyAndDelete(member_id) == [variant |-> "SetProxyAndDelete", member_id |-> member_id]

\* Command
Edit(member_id, message_id, content) ==
    [name |-> "Edit", member_id |-> member_id, message_id |-> message_id,
     content |-> content]
Reproxy(member_id, message_id) ==
    [name |-> "Reproxy", member_id |-> member_id, message_id |-> message_id]
Nick(member_id, nick) == [name |-> "Nick", member_id |-> member_id, nick |-> nick]
UnknownCommand == [name |-> "UnknownCommand"]
InvalidCommand == [name |-> "InvalidCommand"]


\* char::is_whitespace
IsWhitespace(c) == c = " "

\* a user mention in a message is one symbol: "@0" mentions the bot of member
\* 0, "@1" the bot of member 1, "@9" the stranger
Mentions == [symbol \in {"@0", "@1", "@9"} |->
                IF symbol = "@0" THEN UserIdOf(0)
                ELSE IF symbol = "@1" THEN UserIdOf(1) ELSE Stranger]

\* Id::<UserMarker>::parse: Ok(user id) for a word that is a mention
ParseMention(word) ==
    IF Len(word) = 1 /\ word[1] \in DOMAIN Mentions THEN Some(Mentions[word[1]]) ELSE None

\* the position of the first character of s that satisfies none/one of the
\* tests below, 0 if there is none
RECURSIVE FirstWhitespace(_, _)
FirstWhitespace(s, i) ==
    IF i > Len(s) THEN 0
    ELSE IF IsWhitespace(s[i]) THEN i
    ELSE FirstWhitespace(s, i + 1)

\* SplitWhitespace::next with SplitWhitespace::remainder: the next word of the
\* remainder (None at the end) and the remainder behind it (None once the
\* split has finished)
RECURSIVE NextWord(_)
NextWord(remainder) ==
    IF remainder = None THEN [word |-> None, remainder |-> None]
    ELSE LET s == Unwrap(remainder)
             i == FirstWhitespace(s, 1)
         IN  IF i = 0
             THEN [word |-> IF s = <<>> THEN None ELSE Some(s), remainder |-> None]
             ELSE IF i = 1 THEN NextWord(Some(Tail(s)))
             ELSE [word |-> Some(SubSeq(s, 1, i - 1)),
                   remainder |-> Some(SubSeq(s, i + 1, Len(s)))]

\* str::trim
RECURSIVE TrimStart(_)
TrimStart(s) ==
    IF s # <<>> /\ IsWhitespace(Head(s)) THEN TrimStart(Tail(s)) ELSE s
RECURSIVE TrimEnd(_)
TrimEnd(s) ==
    IF s # <<>> /\ IsWhitespace(s[Len(s)]) THEN TrimEnd(SubSeq(s, 1, Len(s) - 1)) ELSE s
Trim(s) == TrimEnd(TrimStart(s))

\* str::split(separator): the parts
RECURSIVE Split(_, _, _)
Split(s, separator, part) ==
    IF s = <<>> THEN <<part>>
    ELSE IF Head(s) = separator THEN <<part>> \o Split(Tail(s), separator, <<>>)
    ELSE Split(Tail(s), separator, Append(part, Head(s)))

\* MessageParser::get_member_id_from_user_id: the first member whose resolved
\* user id is user_id
RECURSIVE get_member_id_from_user_id(_, _, _)
get_member_id_from_user_id(user_id, system_config, member_id) ==
    IF member_id >= Len(system_config.members) THEN None
    ELSE IF system_config.members[member_id + 1].user_id = Some(user_id)
         THEN Some(member_id)
         ELSE get_member_id_from_user_id(user_id, system_config, member_id + 1)

\* MessageParser::match_member
match_member(maybe_mention, system_config) ==
    IF maybe_mention # None /\ ParseMention(Unwrap(maybe_mention)) # None
    THEN get_member_id_from_user_id(Unwrap(ParseMention(Unwrap(maybe_mention))),
                                    system_config, 0)
    ELSE None

\* the flags of the substitution command
Flags == {"i", "m", "g", "x", "R", "s", "U"}

\* RegexBuilder::build of a substitution pattern is Ok: the patterns of the
\* model are literal characters, and a pattern that starts with a repetition
\* operator has nothing to repeat
BuildOk(pattern) == pattern = <<>> \/ Head(pattern) # "*"

\* the pattern as the flags make the regex read it: 'x' ignores whitespace
RECURSIVE IgnoreWhitespace(_)
IgnoreWhitespace(pattern) ==
    IF pattern = <<>> THEN <<>>
    ELSE IF IsWhitespace(Head(pattern)) THEN IgnoreWhitespace(Tail(pattern))
    ELSE <<Head(pattern)>> \o IgnoreWhitespace(Tail(pattern))

\* the literal pattern matches at the start of s
MatchesAtStart(s, pattern, case_insensitive) ==
    /\ Len(s) >= Len(pattern)
    /\ \A i \in DOMAIN pattern :
          IF case_insensitive THEN Fold(s[i]) = Fold(pattern[i]) ELSE s[i] = pattern[i]

\* Regex::replace and Regex::replace_all for a literal pattern
RECURSIVE Replace(_, _, _, _, _)
Replace(s, pattern, replacement, case_insensitive, global) ==
    IF MatchesAtStart(s, pattern, case_insensitive)
    THEN IF pattern = <<>>
         THEN replacement \o
              (IF s = <<>> THEN <<>>
               ELSE IF global
                    THEN <<Head(s)>> \o Replace(Tail(s), pattern, replacement,
                                                case_insensitive, global)
                    ELSE s)
         ELSE LET rest == SubSeq(s, Len(pattern) + 1, Len(s))
              IN  replacement \o
                  (IF global
                   THEN Replace(rest, pattern, replacement, case_insensitive, global)
                   ELSE rest)
    ELSE IF s = <<>> THEN <<>>
    ELSE <<Head(s)>> \o Replace(Tail(s), pattern, replacement, case_insensitive, global)

\* the flags contain flag
HasFlag(flags, flag) == \E i \in DOMAIN flags : flags[i] = flag

\* parse_command, "Attempt matching !s": the substitution command
AttemptMatchingS(message, secondary_message, system_config) ==
    IF message.content[2] # "s" THEN UnknownCommand
    ELSE IF Len(message.content) < 3 THEN Aborted
    ELSE LET separator == message.content[3]
             parts == Split(message.content, separator, <<>>)
             pattern == parts[2]
             replacement == parts[3]
             flags == IF Len(parts) = 4 THEN parts[4] ELSE <<>>
             regex == IF HasFlag(flags, "x") THEN IgnoreWhitespace(pattern) ELSE pattern
             editing_member ==
                 get_member_id_from_user_id(Unwrap(secondary_message).author,
                                            system_config, 0)
         IN  IF Len(parts) # 3 /\ Len(parts) # 4 THEN InvalidCommand
             ELSE IF \E i \in DOMAIN flags : flags[i] \notin Flags THEN InvalidCommand
             ELSE IF ~BuildOk(pattern) THEN Aborted
             ELSE IF secondary_message = None THEN Aborted
             ELSE IF editing_member = None THEN Aborted
             ELSE Edit(Unwrap(editing_member), Unwrap(secondary_message).id,
                       Replace(Unwrap(secondary_message).content, regex, replacement,
                               HasFlag(flags, "i"), HasFlag(flags, "g")))

\* MessageParser::parse_command: a Command, or Aborted
parse_command(message, secondary_message, system_config, latch) ==
    LET first == NextWord(Some(Tail(message.content)))
        second == NextWord(first.remainder)
        editing_member ==
            get_member_id_from_user_id(Unwrap(secondary_message).author, system_config, 0)
        member == match_member(second.word, system_config)
    IN  IF first.word = None THEN UnknownCommand
        ELSE IF first.word = Some(<<"e", "d", "i", "t">>)
             THEN IF secondary_message = None THEN Aborted
                  ELSE IF editing_member = None THEN Aborted
                  ELSE IF first.remainder = None THEN Aborted
                  ELSE Edit(Unwrap(editing_member), Unwrap(secondary_message).id,
                            Unwrap(first.remainder))
        ELSE IF first.word = Some(<<"n", "i", "c", "k">>) /\ member # None
             THEN IF second.remainder = None THEN Aborted
                  ELSE Nick(Unwrap(member), Unwrap(second.remainder))
        ELSE IF first.word = Some(<<"r", "e", "p", "r", "o", "x", "y">>) /\ member # None
             THEN IF secondary_message = None THEN Aborted
                  ELSE Reproxy(Unwrap(member), Unwrap(secondary_message).id)
        ELSE AttemptMatchingS(message, secondary_message, system_config)

\* MessageParser::check_correction
check_correction(message, secondary_message) == None

\* system_config.members.iter().enumerate().find_map(..): the first member
\* whose pattern matches, with the content capture
RECURSIVE matches_prefix(_, _, _)
matches_prefix(message, system_config, member_id) ==
    IF member_id >= Len(system_config.members) THEN None
    ELSE LET matched_content ==
                 matches_proxy_prefix(system_config.members[member_id + 1], message.content)
         IN  IF matched_content # None
             THEN Some([member_id |-> member_id, matched_content |-> Unwrap(matched_content)])
             ELSE matches_prefix(message, system_config, member_id + 1)

\* MessageParser::check_member_patterns
check_member_patterns(message, secondary_message, system_config) ==
    LET found == matches_prefix(message, system_config, 0)
        member_id == Unwrap(found).member_id
        matched_content == Unwrap(found).matched_content
    IN  IF found = None THEN None
        ELSE IF Trim(matched_content) = <<"*">>
             THEN IF secondary_message = None THEN Some(Aborted)
                  ELSE Some(Command(Reproxy(member_id, Unwrap(secondary_message).id)))
        ELSE IF Trim(matched_content) # <<>>
             THEN Some(ProxiedMessage(member_id, matched_content, TRUE))
        ELSE Some(SetProxyAndDelete(member_id))

\* MessageParser::check_autoproxy
check_autoproxy(message, latch) ==
    IF latch # None
    THEN Some(ProxiedMessage(Unwrap(latch).member, message.content, TRUE))
    ELSE None

\* MessageParser::parse: the ParsedMessage, or Aborted
parse(message, secondary_message, system_config, latch) ==
    LET command == parse_command(message, secondary_message, system_config, latch)
        by_pattern == check_member_patterns(message, secondary_message, system_config)
        by_latch == check_autoproxy(message, latch)
    IN  IF message.content = <<Backslash, Backslash>>
        THEN LatchClear(IF latch # None THEN Unwrap(latch).member ELSE 0)
        ELSE IF StartsWith(message.content, <<Backslash>>) THEN UnproxiedMessage
        ELSE IF StartsWith(message.content, <<"!">>)
             THEN IF command = Aborted THEN Aborted ELSE Command(command)
        ELSE IF by_pattern # None THEN Unwrap(by_pattern)
        ELSE IF by_latch # None THEN Unwrap(by_latch)
        ELSE UnproxiedMessage

(***************************************************************************)
(* Member patterns (config.rs parse_regex, Member::matches_proxy_prefix).  *)
(* A pattern string is a sequence of symbols: "^", "$" and "|" are the     *)
(* anchors and the alternation, "(" opens the group (?P<content> and ")"   *)
(* closes it, ".*" is the greedy repetition of any character (dot-all),    *)
(* every other symbol is a literal character.                              *)
(***************************************************************************)
\* parse_regex: "^" is put in front of a pattern that does not start with it
\* and "$" behind a pattern that does not end with it
parse_regex(pattern) ==
    LET anchored == IF StartsWith(pattern, <<"^">>) THEN pattern ELSE <<"^">> \o pattern
    IN  IF anchored[Len(anchored)] = "$" THEN anchored ELSE Append(anchored, "$")

\* the match of one branch of the alternation from position pos of the content
\* (pos characters are consumed), by backtracking: the end of the match and
\* the content capture, None if the group took no part
RECURSIVE MatchBranch(_, _, _, _, _, _)
RECURSIVE Greedy(_, _, _, _, _, _, _)
MatchBranch(branch, i, content, pos, group_start, capture) ==
    IF i > Len(branch) THEN Some([end |-> pos, content |-> capture])
    ELSE IF branch[i] = "^"
         THEN IF pos = 0
              THEN MatchBranch(branch, i + 1, content, pos, group_start, capture)
              ELSE None
    ELSE IF branch[i] = "$"
         THEN IF pos = Len(content)
              THEN MatchBranch(branch, i + 1, content, pos, group_start, capture)
              ELSE None
    ELSE IF branch[i] = "("
         THEN MatchBranch(branch, i + 1, content, pos, pos, capture)
    ELSE IF branch[i] = ")"
         THEN MatchBranch(branch, i + 1, content, pos, group_start,
                          Some(SubSeq(content, group_start + 1, pos)))
    ELSE IF branch[i] = ".*"
         THEN Greedy(branch, i, content, pos, group_start, capture, Len(content))
    ELSE IF pos < Len(content) /\ Fold(content[pos + 1]) = Fold(branch[i])
         THEN MatchBranch(branch, i + 1, content, pos + 1, group_start, capture)
    ELSE None

\* ".*" takes the characters up to position to, the most it can first
Greedy(branch, i, content, pos, group_start, capture, to) ==
    IF to < pos THEN None
    ELSE LET rest == MatchBranch(branch, i + 1, content, to, group_start, capture)
         IN  IF rest # None THEN rest
             ELSE Greedy(branch, i, content, pos, group_start, capture, to - 1)

\* the first branch of the alternation that matches from pos
RECURSIVE FirstBranch(_, _, _, _)
FirstBranch(branches, k, content, pos) ==
    IF k > Len(branches) THEN None
    ELSE LET matched == MatchBranch(branches[k], 1, content, pos, pos, None)
         IN  IF matched # None
             THEN Some([start |-> pos, end |-> Unwrap(matched).end,
                        content |-> Unwrap(matched).content])
             ELSE FirstBranch(branches, k + 1, content, pos)

\* Regex::captures: the leftmost match, the first branch that matches there
RECURSIVE captures(_, _, _)
captures(regex, content, pos) ==
    IF pos > Len(content) THEN None
    ELSE LET matched == FirstBranch(Split(regex, "|", <<>>), 1, content, pos)
         IN  IF matched # None THEN matched ELSE captures(regex, content, pos + 1)

\* Member::matches_proxy_prefix for a compiled pattern: the content capture
captures_content(regex, content) ==
    LET matched == captures(regex, content, 0)
    IN  IF matched = None THEN None ELSE Unwrap(matched).content

(***************************************************************************)
(* The pure functions of the runtime, applied to arguments of bounded      *)
(* sets: call records the function, its arguments and its result.          *)
(***************************************************************************)
NoCall == [fn |-> "none"]

\* the values of Manager.latch_state
Latches == {None} \cup {Latched(member_id, timestamp) :
                            member_id \in Members, timestamp \in 0 .. MaxTs}

\* the autoproxy policies a configuration file can give the members of config
Policies ==
    {policy \in {NoPolicy, MemberPolicy("A"), MemberPolicy("B")} \cup
                {LatchPolicy(scope, TimeoutSeconds, presence_indicator) :
                    scope \in {"Global", "Server"}, presence_indicator \in BOOLEAN} :
        load(System(members, policy))}

\* the member_states of update_status_of_system
ApplyDesiredStatus(policy, latch) ==
    /\ call = NoCall
    /\ call' = [fn |-> "update_status_of_system", policy |-> policy, latch |-> latch,
                result |-> [member_id \in Members |->
                               DesiredStatus(member_id, policy, latch)]]
    /\ UNCHANGED <<aggVars, mgrVars, gwVars>>

\* the message contents the parser is applied to
ParserContents ==
    {<<Backslash, Backslash>>,  \* '\\': the latch clear
     <<Backslash, "r">>,  \* '\r': an escaped message
     <<Backslash, Backslash, "r">>,  \* '\\r': an escaped message starting with two backslashes
     <<"!">>,  \* '!': a command without a word
     <<"!", "x">>,  \* '!x': an unknown command
     <<"!", "A", ":", "h">>,  \* '!A:h': a command that carries a member prefix
     <<"!", "e", "d", "i", "t", " ", "x">>,  \* '!edit x'
     <<"!", "e", "d", "i", "t">>,  \* '!edit'
     <<"!", "e", "d", "i", "t", " ">>,  \* '!edit '
     <<"!", "n", "i", "c", "k", " ", "@0", " ", "n">>,  \* '!nick @0 n'
     <<"!", "n", "i", "c", "k", " ", "@0">>,  \* '!nick @0'
     <<"!", "n", "i", "c", "k", " ", "@9", " ", "n">>,  \* '!nick @9 n'
     <<"!", "n", "i", "c", "k">>,  \* '!nick'
     <<"!", "r", "e", "p", "r", "o", "x", "y", " ", "@1">>,  \* '!reproxy @1'
     <<"!", "r", "e", "p", "r", "o", "x", "y", " ", "@9">>,  \* '!reproxy @9'
     <<"!", "s", "/", "h", "/", "x">>,  \* '!s/h/x'
     <<"!", "s", "/", "h", "/", "x", "/", "g">>,  \* '!s/h/x/g'
     <<"!", "s", "/", "B", "/", "x", "/", "i">>,  \* '!s/B/x/i'
     <<"!", "s", "/", "h", "/", "x", "/", "z">>,  \* '!s/h/x/z'
     <<"!", "s", "/", "/", "x", "/", "g">>,  \* '!s//x/g'
     <<"!", "s", "/", "*", "/", "x">>,  \* '!s/*/x'
     <<"!", "s", "/", "h">>,  \* '!s/h'
     <<"!", "s">>,  \* '!s'
     <<"!", "s", "a", "y", " ", "h", "i">>,  \* '!say hi': a first word that begins with s
     <<"A", ":", "h">>,  \* 'A:h'
     <<"A", ":", " ", "h", " ">>,  \* 'A: h '
     <<"A", ":", "*">>,  \* 'A:*'
     <<"A", ":", " ", "*", " ">>,  \* 'A: * '
     <<"A", ":">>,  \* 'A:'
     <<"A", ":", " ">>,  \* 'A: '
     <<"b", ":", "h">>,  \* 'b:h'
     <<"h">>,  \* 'h'
     <<"*", "h">>,  \* '*h': a correction
     <<" ", "h", " ">>}  \* ' h '

\* the fields of a FullMessage the parser reads
Authored(id, author, content) == [id |-> id, author |-> author, content |-> content]

\* the members of a system with the user ids of the bots that are resolved
Resolve(member_list, resolved) ==
    [i \in DOMAIN member_list |->
        [name |-> member_list[i].name,
         message_pattern |-> member_list[i].message_pattern,
         user_id |-> IF (i - 1) \in resolved THEN Some(UserIdOf(i - 1)) ELSE None]]

\* members whose patterns start with the characters of commands and escapes
Sigils ==
    <<[name |-> "A", message_pattern |-> <<"!">>],
      [name |-> "B", message_pattern |-> <<Backslash>>]>>

\* the systems the parser is applied to
ParserConfigs ==
    {System(Resolve(member_list, resolved), NoPolicy) :
        member_list \in {DistinctNames, Sigils}, resolved \in {{}, {0}, Members}}

\* the secondary messages: none, one a bot of the system sent, one of a stranger
SecondaryMessages ==
    {None} \cup {Some(Authored(1, author, <<"h", "b", "h">>)) :
                    author \in {UserIdOf(member_id) : member_id \in Members} \cup {Stranger}}

\* MessageParser::parse applied to a message
Parse(content, secondary_message, system_config, latch) ==
    /\ call = NoCall
    /\ call' = [fn |-> "parse", content |-> content,
                secondary_message |-> secondary_message,
                system_config |-> system_config, latch_state |-> latch,
                result |-> parse(Authored(2, ReferenceUser, content), secondary_message,
                                 system_config, latch)]
    /\ UNCHANGED <<aggVars, mgrVars, gwVars>>


\* the systems of the configuration files Config::load is applied to: none,
\* one or all of the members, with names that differ or agree
LoadSystems ==
    {System(member_list, policy) :
        member_list \in {<<>>, SubSeq(DistinctNames, 1, 1), DistinctNames, SameName},
        policy \in {NoPolicy, MemberPolicy("A"), MemberPolicy("B"), MemberPolicy("Z"),
                    LatchPolicy("Global", TimeoutSeconds, TRUE)}}

\* Config::load applied to a configuration file with one system; the result
\* is whether it returns the configuration (it panics otherwise)
Load(system) ==
    /\ call = NoCall
    /\ call' = [fn |-> "load", system |-> system, result |-> load(system)]
    /\ UNCHANGED <<aggVars, mgrVars, gwVars>>

\* the message_pattern strings of the configuration files
PatternStrings ==
    {<<"A", ":", "(", ".*", ")">>,              \* 'A:(?P<content>.*)'
     <<"^", "A", ":", "(", ".*", ")", "$">>,    \* '^A:(?P<content>.*)$'
     <<"A", ":", "(", "h", ")">>,               \* 'A:(?P<content>h)'
     <<"(", "h", ")", "|", "x">>,               \* '(?P<content>h)|x'
     <<"x", "|", "(", "h", ")">>}               \* 'x|(?P<content>h)'

\* the message contents the patterns are applied to
PatternContents ==
    {<<"A", ":", "h">>, <<"a", ":", "h", "x">>, <<"A", ":">>, <<"x", "A", ":", "h">>,
     <<"h">>, <<"h", "x">>, <<"x", "h">>, <<"x">>}

\* a member with this message_pattern string is loaded and its pattern is
\* applied to a message
MatchPattern(pattern, content) ==
    /\ call = NoCall
    /\ call' = [fn |-> "matches_proxy_prefix", pattern |-> pattern, content |-> content,
                regex |-> parse_regex(pattern),
                captures |-> captures(parse_regex(pattern), content, 0),
                result |-> captures_content(parse_regex(pattern), content)]
    /\ UNCHANGED <<aggVars, mgrVars, gwVars>>

\* Client::delete_message applied to an outcome of the delete request
DeleteMessage(delete_result) ==
    /\ call = NoCall
    /\ call' = [fn |-> "delete_message", delete_result |-> delete_result,
                result |-> delete_message(delete_result).result,
                reactions |-> delete_message(delete_result).reactions]
    /\ UNCHANGED <<aggVars, mgrVars, gwVars>>

\* Client::duplicate_message applied to a source message, with the outcome
\* of every download, of the validation and of the create request
DuplicateMessage(message, content, fetch_ok, content_valid, attachments_valid, service) ==
    /\ call = NoCall
    /\ ServiceAnswers(CreateRequest(message, content, fetch_ok), service)
    /\ call' = [fn |-> "duplicate_message", message |-> message, content |-> content,
                fetch_ok |-> fetch_ok, content_valid |-> content_valid,
                attachments_valid |-> attachments_valid, service |-> service,
                result |-> duplicate_message(message, content, fetch_ok, content_valid,
                                             attachments_valid, service).result,
                request |-> duplicate_message(message, content, fetch_ok, content_valid,
                                              attachments_valid, service).request]
    /\ UNCHANGED <<aggVars, mgrVars, gwVars>>

PureInit == call = NoCall

PureNext ==
    \/ \E policy \in Policies, latch \in Latches : ApplyDesiredStatus(policy, latch)
    \/ \E content \in ParserContents, secondary_message \in SecondaryMessages,
          system_config \in ParserConfigs, latch \in Latches :
            Parse(content, secondary_message, system_config, latch)
    \/ \E system \in LoadSystems : Load(system)
    \/ \E pattern \in PatternStrings, content \in PatternContents :
            MatchPattern(pattern, content)
    \/ \E delete_result \in DeleteResults : DeleteMessage(delete_result)
    \/ \E message \in SourceMessages, content \in {<<>>, <<"h">>},
          content_valid \in BOOLEAN, attachments_valid \in BOOLEAN,
          service \in DuplicateOutcomes :
            \E fetch_ok \in SUBSET (1 .. Len(message.attachments)) :
                DuplicateMessage(message, content, fetch_ok, content_valid,
                                 attachments_valid, service)

\* the system after construction: MessageAggregator::new and Manager::new
Init == AggInit /\ MgrInit /\ GwInit /\ PureInit

\* a system without an autoproxy policy
InitAgg == Init /\ autoproxy = NoPolicy

\* the pure functions read no state of the runtime
InitPure == Init /\ autoproxy = NoPolicy

\* the listeners and the aggregator
SpecAgg == InitAgg /\ [][AggNext]_vars

\* the same with the scheduling of the tasks: the listeners, the aggregator
\* and the Manager are tokio tasks, each runs whenever it has an event. The
\* system is started in a channel that holds a message of the reference user
\* already: the listeners start after it, the cache is empty
InitAggLive ==
    /\ world = <<[kind |-> "create", id |-> 1, ts |-> 1, author |-> Some(ReferenceUser)]>>
    /\ seen = [member_id \in Members |-> 1]
    /\ rx = <<>>
    /\ message_cache = <<>>
    /\ agg_pc = "recv"
    /\ agg_pending = None
    /\ sent_new = [id \in MessageIds \cup OtherIds |-> <<>>]
    /\ sent_refetch = {}
    /\ refetch_queue = <<>>
    /\ MgrInit /\ GwInit /\ PureInit
    /\ autoproxy = NoPolicy
SpecAggLive ==
    /\ InitAggLive /\ [][AggNext]_vars
    /\ \A member_id \in Members : WF_vars(StartListening(member_id))
    /\ WF_vars(AggRecv) /\ WF_vars(AggSendSelf) /\ WF_vars(HandleRefetchMessage)

\* the aggregator with its lock: the listeners feed it while another task
\* calls get_sender or set_system_handler
AggLockNext ==
    \/ UserCreate
    \/ \E member_id \in Members : StartListening(member_id)
    \/ AggAwaitInput
    \/ AggRecv
    \/ \E function \in ApiFunctions : ApiCall(function)
    \/ ApiReturn
SpecAggLock == InitAgg /\ [][AggLockNext]_vars

\* the listeners with the locks of their shards, while the Manager sets the
\* status of the bots
ShardNext ==
    \/ UserCreate
    \/ \E member_id \in Members : StartListening(member_id)
    \/ \E member_id \in Members : ListenerAwaitEvent(member_id)
    \/ AggRecv
    \/ \E member_id \in Members, status \in Statuses : SetStatusBegin(member_id, status)
    \/ SetStatusEnd
SpecShard == InitAgg /\ [][ShardNext]_vars

\* the Manager alone: nothing reaches the aggregator
SpecMgr == Init /\ [][MgrNext]_vars

\* the Manager with its timers: a spawned timer task wakes up after
\* timeout_seconds and its event is received by the running event loop
SpecMgrLive == Init /\ [][MgrNext]_vars /\ WF_vars(HandleAutoproxyTimeout)

\* the pure functions alone
SpecPure == InitPure /\ [][PureNext]_vars

\* the gateways and the Manager's receipt of their events; the Manager's
\* task is scheduled whenever an event is in its channel
InitGw == Init /\ autoproxy = NoPolicy
SpecGw == InitGw /\ [][GwNext]_vars /\ WF_vars(HandleGatewayEvent)

\* the Manager with the sessions of the bots: a gateway becomes ready, ready
\* again after a reconnect, or fails
ConnNext ==
    \/ \E member_id \in Members : GatewayReady(member_id)
    \/ \E member_id \in Members, fatal \in BOOLEAN : GatewayFails(member_id, fatal)
    \/ HandleGatewayEvent
SpecConn == InitGw /\ [][ConnNext]_vars

\* the listeners with the events and the errors of their gateways
ListenerNext ==
    \/ UserCreate
    \/ UserEdit
    \/ \E member_id \in Members : StartListening(member_id)
    \/ \E member_id \in Members, fatal \in BOOLEAN : GatewayFails(member_id, fatal)
    \/ HandleGatewayEvent
InitListener == Init /\ autoproxy = NoPolicy
SpecListener == InitListener /\ [][ListenerNext]_vars

(***************************************************************************)
(* Properties of the aggregator.                                           *)
(***************************************************************************)
\* the effective timestamps of the NewMessage events sent for message id
SentEffective(id) ==
    [i \in 1 .. Len(sent_new[id]) |-> EffectiveTimestamp(sent_new[id][i].message)]

\* how many NewMessage events were sent for message id at effective timestamp e
SentCount(id, e) ==
    Cardinality({i \in 1 .. Len(sent_new[id]) : SentEffective(id)[i] = e})

\* the bots whose listener has forwarded the Complete of the post of message id
Forwarders(id) ==
    {member_id \in Members :
        \E i \in 1 .. seen[member_id] : world[i].kind = "create" /\ world[i].id = id}

\* the aggregator has handled everything the listeners have sent
AggIdle == rx = <<>> /\ agg_pc = "recv"

\* C1: for every message id the NewMessage events the aggregator sends have
\* strictly increasing effective timestamps. Every cache update of
\* MessageAggregator::start stores the message of the NewMessage it sends next,
\* so this is also the order of the effective timestamps stored in the cache
\* for that id.
C1_DedupMonotonic ==
    \A id \in MessageIds :
        \A i, j \in 1 .. Len(sent_new[id]) :
            i < j => SentEffective(id)[i] < SentEffective(id)[j]

\* C2: once the Completes that k >= 1 bots forwarded for the post of a message
\* have been handled, the Manager has been sent exactly one NewMessage for that
\* generation of the message, and never more than one on the way.
C2_OneNewMessagePerGeneration ==
    \A id \in MessageIds :
        /\ Forwarders(id) # {} => SentCount(id, world[CreatedAt(id)].ts) <= 1
        /\ (Forwarders(id) # {} /\ AggIdle) => SentCount(id, world[CreatedAt(id)].ts) = 1

(***************************************************************************)
(* Properties of the proxy protocol (handle_message, proxy_message).       *)
(***************************************************************************)
\* the event handled last ran the proxy protocol
ProxyAttempted == rest_log # <<>> /\ rest_log[1].op = "create"

\* the result of the create request of the proxy protocol
CreateResult == IF ProxyAttempted THEN Some(rest_log[1].result) ELSE None

\* a request of the proxy protocol failed
ProxyFailed == ProxyAttempted /\ \E i \in DOMAIN rest_log : rest_log[i].result # "ok"

\* the proxy protocol created the duplicate and deleted the source
ProxySucceeded ==
    /\ ProxyAttempted
    /\ Len(rest_log) = 2
    /\ \A i \in DOMAIN rest_log : rest_log[i].result = "ok"

\* the source message is deleted through some client
DeleteIssued == \E i \in DOMAIN rest_log : rest_log[i].op = "delete_source"

\* the event handled last proxied a message as member with content
ProxiedAs(member, content) ==
    /\ ProxyAttempted
    /\ rest_log[1].member = member
    /\ rest_log[1].content = content

\* a message that is no escape, no command and matches no member pattern
Plain(content) ==
    /\ ~StartsWith(content, <<Backslash>>)
    /\ ~StartsWith(content, <<"!">>)
    /\ match_prefix(content, 0) = None

\* this step handles a NewMessage event
MessageStep == handled'.event = "NewMessage"

\* C3: no ghost posts: whenever the proxy protocol ends in an error at any
\* step, the source message is in the channel as it was before and no
\* duplicate is (the refusal of an empty message, after which the source is
\* deleted on purpose, aside).
C3_NoGhostPosts ==
    [][(MessageStep /\ ProxyFailed' /\ CreateResult' # Some("empty")) =>
          /\ source_visible' = SourcePresent(handled'.timestamp)
          /\ ~duplicate_visible']_vars

\* C4: if the duplicate was created and the delete of the source fails, the
\* duplicate is deleted through the same member's client and the Manager
\* keeps running.
C4_RollbackOnDeleteFailure ==
    (CreateResult = Some("ok") /\ ProxyFailed) =>
        /\ \E i \in DOMAIN rest_log :
              /\ rest_log[i].op = "delete_duplicate"
              /\ rest_log[i].member = rest_log[1].member
        /\ ~duplicate_visible
        /\ mgr_pc = "running"

\* C5 as stated: after a MessageCreate error of duplicate_message no delete
\* is issued for the source.
C5_NoDeleteAfterCreateError ==
    CreateResult \in {Some("empty"), Some("create_error")} => ~DeleteIssued

\* C5, amended: after a MessageCreate error other than the service's refusal
\* of an empty message no delete is issued for the source; after the refusal
\* of an empty message the source is deleted through the client of the member
\* that was to send the duplicate.
C5_DeleteOnlyAfterEmptyMessage ==
    /\ CreateResult = Some("create_error") => ~DeleteIssued
    /\ CreateResult = Some("empty") =>
          /\ Len(rest_log) = 2
          /\ rest_log[2].op = "delete_source"
          /\ rest_log[2].member = rest_log[1].member

C5_Witness ==
    /\ CreateResult = Some("create_error")
    /\ ~DeleteIssued
    /\ source_visible
    /\ mgr_pc = "running"

(***************************************************************************)
(* Properties of the latch.                                                *)
(***************************************************************************)
\* this step handles an AutoproxyTimeout event
TimeoutStep == timers # <<>> /\ timers' = Tail(timers)

\* the latch is present with the timestamp the timer was scheduled with
Current(latch, time_scheduled) ==
    latch # None /\ Unwrap(latch).timestamp = time_scheduled

\* C6: handling AutoproxyTimeout(ts) clears the latch if and only if the latch
\* is present with timestamp ts; otherwise the latch and the presence sent
\* last for every member stay as they are.
C6_TimeoutClearsOnlyCurrentLatch ==
    [][TimeoutStep =>
          IF Current(latch_state, Head(timers))
          THEN latch_state' = None
          ELSE latch_state' = latch_state /\ last_presence' = last_presence]_vars

\* a timeout has cleared the latch and reconciled the presence
C6_Witness ==
    /\ handled.event = "AutoproxyTimeout"
    /\ autoproxy.mode = "latch"
    /\ autoproxy.presence_indicator
    /\ latch_state = None
    /\ \A member_id \in Members : last_presence[member_id] = Some("Invisible")

\* C7: latch supersession: a timer moves the latch to Off only if no message
\* has updated the latch since the timer was scheduled, that is, no timer
\* scheduled after it is sleeping.
C7_SupersededTimerNeverClears ==
    [][(TimeoutStep /\ latch_state # None /\ latch_state' = None) =>
          Len(timers) = 1]_vars

\* C8: under a Latch policy a message whose proxy protocol failed leaves the
\* latch as it was (a prefix without content, which switches the latch on
\* purpose, aside).
C8_LatchSetOnlyAfterSuccessfulProxy ==
    [][(/\ MessageStep
        /\ autoproxy.mode = "latch"
        /\ ProxyFailed'
        /\ rest_log'[1].content # <<>>) =>
          latch_state' = latch_state]_vars

\* the time from the latch to the message, in ticks, is within the timeout
WithinTimeout(latch, timestamp) ==
    timestamp - Unwrap(latch).timestamp <= autoproxy.timeout_seconds * TicksPerSecond

\* the whole seconds of the message and of the latch differ by the timeout
\* at most
WithinTimeoutSeconds(latch, timestamp) ==
    (timestamp \div TicksPerSecond) - (Unwrap(latch).timestamp \div TicksPerSecond)
        <= autoproxy.timeout_seconds

\* this step handles a plain message under a Latch policy
PlainUnderLatch ==
    /\ MessageStep
    /\ autoproxy.mode = "latch"
    /\ Plain(handled'.content)

\* this step proxies the message it handles, unchanged, as the latched member
ProxiesAsLatched ==
    /\ rest_log' # <<>>
    /\ rest_log'[1].op = "create"
    /\ rest_log'[1].member = Unwrap(latch_state).member
    /\ rest_log'[1].content = handled'.content

\* this step leaves the message and the latch alone
LeavesUnproxied == rest_log' = <<>> /\ latch_state' = latch_state

\* C9 as stated: under a Latch policy a plain message is proxied as the
\* latched member with its content iff the latch is present and at most
\* timeout_seconds have elapsed from the latch timestamp to the message
\* timestamp; otherwise nothing is requested and the latch is unchanged.
C9_ProxiedIffWithinTimeout ==
    [][PlainUnderLatch =>
          IF latch_state # None /\ WithinTimeout(latch_state, handled'.timestamp)
          THEN ProxiesAsLatched
          ELSE LeavesUnproxied]_vars

\* C9, amended: the time between the latch and the message is the difference
\* of the two timestamps truncated to whole seconds.
C9_ProxiedIffWithinTimeoutSeconds ==
    [][PlainUnderLatch =>
          IF latch_state # None /\ WithinTimeoutSeconds(latch_state, handled'.timestamp)
          THEN ProxiesAsLatched
          ELSE LeavesUnproxied]_vars

\* a plain message arrived more than timeout_seconds after the latch, which
\* is still present, and was left alone
C9_Witness ==
    /\ autoproxy.mode = "latch"
    /\ handled.event = "NewMessage"
    /\ Plain(handled.content)
    /\ latch_state # None
    /\ ~WithinTimeoutSeconds(latch_state, handled.timestamp)
    /\ rest_log = <<>>

\* C10: under the Member{name} policy every plain message is proxied as the
\* named member with its content, whatever the latch.
C10_MemberPolicyProxiesAsNamedMember ==
    (autoproxy.mode = "member" /\ handled.event = "NewMessage" /\ Plain(handled.content)) =>
        \E member_id \in Members :
            /\ members[member_id + 1].name = autoproxy.name
            /\ ProxiedAs(member_id, handled.content)

C10_Witness ==
    /\ autoproxy.mode = "member"
    /\ handled.event = "NewMessage"
    /\ Plain(handled.content)
    /\ ProxySucceeded
    /\ members[rest_log[1].member + 1].name = autoproxy.name

(***************************************************************************)
(* Properties of presence reconciliation.                                  *)
(***************************************************************************)
\* the member_states computed last
DesiredApplied == call.fn = "update_status_of_system"

Reconciled ==
    /\ mgr_pc = "running"
    /\ \/ handled.event = "AutoproxyTimeout"
       \/ handled.event = "NewMessage" /\ ProxyAttempted
       \/ handled.event = "NewMessage" /\ handled.content = <<Backslash, Backslash>>
    /\ \A member_id \in Members : last_presence[member_id] # None

\* C12: under Latch{Global, _, presence_indicator = true}, after the Manager
\* has handled a proxied message, a latch clear or a latch timeout, the
\* presence sent last to each member is Online exactly for the latched member
\* and Invisible for every other member, and Invisible for all when the latch
\* is Off.
C12_PresenceFollowsLatch ==
    (/\ autoproxy.mode = "latch"
     /\ autoproxy.scope = "Global"
     /\ autoproxy.presence_indicator
     /\ Reconciled) =>
        \A member_id \in Members :
            last_presence[member_id] =
                Some(IF latch_state # None /\ Unwrap(latch_state).member = member_id
                     THEN "Online" ELSE "Invisible")

\* the UpdatePresence commands this step sends to the bot of a member
UpdatesSent(member_id) == {update \in presence_log' : update.member = member_id}

\* C13: presence idempotence: a bot is sent a presence update only with a
\* status that differs from the status of its last_status, which is the status
\* it was sent last; a step sends at most one update to a bot, and last_status
\* changes only with an update. Hence over any run of reconciliations in which
\* the desired status of a member stays the same at most one update is sent.
C13_NoUpdateForSameStatus ==
    [][\A member_id \in Members :
          /\ Cardinality(UpdatesSent(member_id)) <= 1
          /\ \A update \in UpdatesSent(member_id) :
                /\ update.status # last_status[member_id]
                /\ last_status'[member_id] = update.status
          /\ UpdatesSent(member_id) = {} =>
                last_status'[member_id] = last_status[member_id]]_vars

\* a second message of the latched member was proxied and the presence
\* reconciled: no bot was sent an update
C13_Witness ==
    /\ autoproxy.mode = "latch"
    /\ autoproxy.scope = "Global"
    /\ autoproxy.presence_indicator
    /\ handled.event = "NewMessage"
    /\ ProxySucceeded
    /\ mgr_pc = "running"
    /\ latch_state # None
    /\ rest_log[1].member = Unwrap(latch_state).member
    /\ last_presence[Unwrap(latch_state).member] = Some("Online")
    /\ last_status[Unwrap(latch_state).member] = "Online"
    /\ \E member_id \in Members : last_status[member_id] = "Invisible"
    /\ presence_log = {}

(***************************************************************************)
(* Properties of the escapes (parse, handle_message).                      *)
(***************************************************************************)
\* the classification of a message of the reference user by the parser, for
\* the members of the Manager
Classify(content, latch) ==
    parse(Authored(1, ReferenceUser, content), None,
          System(Resolve(members, {}), autoproxy), latch)

\* the latched member, or member 0 when there is no latch
LatchedOrFirst(latch) == IF latch # None THEN Unwrap(latch).member ELSE 0

\* C14: a message whose content is exactly two backslashes is classified
\* LatchClear(m), where m is the latched member or member 0 when there is no
\* latch; handling it deletes the message through bot m and leaves the latch
\* Off.
C14_LatchClearDeletesThroughLatchedMember ==
    [][(MessageStep /\ handled'.content = <<Backslash, Backslash>>) =>
          /\ Classify(handled'.content, latch_state) = LatchClear(LatchedOrFirst(latch_state))
          /\ rest_log' # <<>>
          /\ rest_log'[1].op = "delete_source"
          /\ rest_log'[1].member = LatchedOrFirst(latch_state)
          /\ latch_state' = None]_vars

\* a message that starts with a backslash and is not the latch clear
Escaped(content) ==
    StartsWith(content, <<Backslash>>) /\ content # <<Backslash, Backslash>>

\* C15: escape: a message whose content starts with a backslash and is not
\* exactly two backslashes is classified UnproxiedMessage, and handling it
\* issues no duplicate and no delete and leaves the latch as it was.
C15_EscapeLeavesLatch ==
    [][(MessageStep /\ Escaped(handled'.content)) =>
          /\ Classify(handled'.content, latch_state) = UnproxiedMessage
          /\ rest_log' = <<>>
          /\ latch_state' = latch_state]_vars

(***************************************************************************)
(* Properties of the parser (message_parser.rs).                           *)
(***************************************************************************)
\* parse has been applied
Parsed == call.fn = "parse"

\* the variants of ParsedMessage the parser produces
Variants ==
    {"Command", "SetProxyAndDelete", "ProxiedMessage", "UnproxiedMessage", "LatchClear"}

\* C16: parser totality: for every message content, every secondary message
\* (present or absent, of a member bot or not), every configuration and every
\* latch state, parse returns one ParsedMessage variant and never aborts.
C16_ParseNeverAborts == Parsed => call.result.variant \in Variants

\* C19: classification is first match wins, in the order escape, command,
\* member pattern, latch: a message whose content starts with a backslash is
\* never classified as proxied or as a command, and a message whose content
\* starts with '!' is always classified Command, even when a member pattern
\* matches the content or a latch is present.
C19_FirstMatchWins ==
    Parsed =>
        /\ StartsWith(call.content, <<Backslash>>) =>
              call.result.variant \notin {"ProxiedMessage", "Command"}
        /\ StartsWith(call.content, <<"!">>) => call.result.variant = "Command"

(***************************************************************************)
(* Properties of the configuration (config.rs).                            *)
(***************************************************************************)
\* some member of the system has the name
HasMember(system, name) == \E i \in DOMAIN system.members : system.members[i].name = name

\* C18: loading a configuration succeeds for a system whose autoproxy policy
\* is Member{name} whenever at least one member of the system has that name,
\* and is rejected exactly when no member has that name, for systems with any
\* number of members.
C18_MemberPolicyNeedsOneNamedMember ==
    (call.fn = "load" /\ call.system.autoproxy.mode = "member") =>
        (call.result <=> HasMember(call.system, call.system.autoproxy.name))

\* a pattern has been applied to a message and gave a content capture
PatternMatched == call.fn = "matches_proxy_prefix" /\ call.result # None

\* C17: regex anchoring: a member's pattern matches only if the match covers
\* the whole content, from the first character to the last; a pattern that
\* matches only a proper part of the content yields no content capture, and
\* so no proxy.
C17_MatchCoversWholeContent ==
    PatternMatched =>
        /\ Unwrap(call.captures).start = 0
        /\ Unwrap(call.captures).end = Len(call.content)

(***************************************************************************)
(* Properties of the listeners (bot/gateway.rs, bot/client.rs).            *)
(***************************************************************************)
\* the author a Message names: of a Complete the author of the message, of a
\* Partial the author the update carries, if any
AuthorOf(message) ==
    IF message.kind = "Complete" THEN Some(message.message.author)
    ELSE message.message.author

\* C20: every message event a bot forwards to the aggregator, from its
\* gateway listener or by resend_message, and hence every NewMessage sent to
\* the Manager, is of a message authored by the reference user: create and
\* update events of anyone else, the bots of the system included, are never
\* forwarded. (resend_message would send what it fetches for the id of a
\* RefetchMessage.)
C20_OnlyReferenceUserForwarded ==
    /\ \A i \in DOMAIN rx : AuthorOf(rx[i].message) = Some(ReferenceUser)
    /\ agg_pc = "send_self" => AuthorOf(Unwrap(agg_pending).message) = Some(ReferenceUser)
    /\ \A id \in DOMAIN sent_new :
          \A i \in DOMAIN sent_new[id] : sent_new[id][i].message.author = ReferenceUser
    /\ \A refetch \in sent_refetch :
          AuthorOf(resend_message(refetch.member_id, refetch.message_id).message)
              = Some(ReferenceUser)

\* a bot of the system has posted a message, every listener has received the
\* event, a RefetchMessage was sent for a message, and the aggregator has
\* handled all that was forwarded: no NewMessage for the bot's message
C20_Witness ==
    /\ \E i \in Others :
          /\ world[i].author = Some(UserIdOf(0))
          /\ \A member_id \in Members : seen[member_id] >= i
          /\ sent_new[world[i].id] = <<>>
    /\ \E id \in MessageIds : sent_new[id] # <<>>
    /\ sent_refetch # {}
    /\ refetch_queue = <<>>
    /\ AggIdle

(***************************************************************************)
(* Properties of the gateway events (Manager::start_clients).              *)
(***************************************************************************)
\* this step handles a GatewayError event
GatewayErrorStep == handled'.event = "GatewayError"

\* C21: handling a GatewayError(m, text) event only logs: the event loop of
\* the Manager keeps running, so that later events are processed, and the
\* latch state is unchanged.
C21_GatewayErrorOnlyLogs ==
    [][GatewayErrorStep => (mgr_pc' = "running" /\ latch_state' = latch_state)]_vars

\* C22: after the gateway listener of a bot has hit a fatal error the Manager
\* eventually handles GatewayClosed(m) and restarts bot m in its member slot,
\* so that the events its gateway observes are forwarded again.
C22_ClosedGatewayIsRestarted ==
    \A member_id \in Members :
        (gateways[member_id] = "closed") ~> (gateways[member_id] = "listening")

\* C23: when the aggregator has sent RefetchMessage for a message (a Partial
\* update whose id was not in its cache), the Manager has the observing bot
\* resend the message, and a NewMessage with the edited content of that
\* message is eventually delivered to the Manager.
C23_RefetchedEditIsDelivered ==
    \A id \in MessageIds :
        (\E refetch \in sent_refetch : refetch.message_id = id)
            ~> (\E i \in DOMAIN sent_new[id] :
                   sent_new[id][i].message.edited_timestamp # None)

(***************************************************************************)
(* Properties of the order and the content of the NewMessage events.       *)
(***************************************************************************)
\* the aggregator sends a NewMessage for message id in this step
SendsNewMessage(id) == Len(sent_new'[id]) = Len(sent_new[id]) + 1

\* the NewMessage sent in this step
SentNow(id) == sent_new'[id][Len(sent_new'[id])]

\* C24: the NewMessage events of different messages reach the Manager in
\* non-decreasing order of effective timestamp: when a NewMessage is sent, no
\* NewMessage sent before it for another message has a later effective
\* timestamp.
C24_NewMessagesInTimestampOrder ==
    [][\A id \in DOMAIN sent_new :
          SendsNewMessage(id) =>
              \A other \in DOMAIN sent_new \ {id} :
                  \A i \in DOMAIN sent_new[other] :
                      EffectiveTimestamp(sent_new[other][i].message)
                          <= EffectiveTimestamp(SentNow(id).message)]_vars

(***************************************************************************)
(* Properties of the REST client (bot/client.rs).                          *)
(***************************************************************************)
\* delete_message was called
Deleted == call.fn = "delete_message"

\* the delete failed with the service's error code for missing permissions
FailedWithMissingPermissions ==
    /\ call.delete_result.variant = "Err"
    /\ call.delete_result.error.code = Some(MissingPermissions)

\* C26: delete_message reacts to the message with the lock emoji if and only
\* if the delete failed with error code 50013; every error of the delete is
\* returned to the caller; a successful delete returns Ok and reacts to
\* nothing.
C26_LockReactionIffMissingPermissions ==
    Deleted =>
        /\ call.reactions = (IF FailedWithMissingPermissions THEN <<LockEmoji>> ELSE <<>>)
        /\ call.delete_result.variant = "Err" => call.result = call.delete_result
        /\ call.delete_result.variant = "Ok" =>
               (call.result.variant = "Ok" /\ call.reactions = <<>>)

\* the delete failed for want of permission: the lock emoji, and the error
C26_Witness ==
    /\ Deleted
    /\ FailedWithMissingPermissions
    /\ call.reactions = <<LockEmoji>>
    /\ call.result = Err(GeneralError(MissingPermissions))

\* duplicate_message was called
Duplicated == call.fn = "duplicate_message"

\* the download of some attachment of the source failed
FetchFailed == \E i \in DOMAIN call.message.attachments : call.message.attachments[i] \notin call.fetch_ok

\* nothing but a download fails: the request is valid, a reply has its
\* referenced message, and the service answers with no error of its own to a
\* request it can accept
NothingElseFails ==
    /\ call.content_valid /\ call.attachments_valid
    /\ (call.message.kind = "Reply" => call.message.referenced_message)
    /\ call.service \in {"ok", "empty"}

\* C25 as stated: a failure to fetch an attachment never fails
\* duplicate_message; the duplicate is created with exactly the attachments
\* whose fetch succeeded.
C25_FetchFailureNeverFailsDuplicate ==
    (Duplicated /\ FetchFailed /\ NothingElseFails) =>
        /\ call.result.variant = "Ok"
        /\ call.result.value.attachments = Fetched(call.message, call.fetch_ok)

\* C25, amended: duplicate_message never returns the error of a download;
\* the request it sends carries exactly the attachments whose fetch
\* succeeded, in the order of the source; when nothing else fails the
\* duplicate is created with these attachments, unless the source has no
\* content and no download succeeded: then the request is empty, the service
\* refuses it and duplicate_message fails with MessageCreate.
C25_FetchFailureDropsAttachment ==
    Duplicated =>
        /\ call.result # Err("AttachmentRequest")
        /\ call.request # None =>
               Unwrap(call.request).attachments = Fetched(call.message, call.fetch_ok)
        /\ NothingElseFails =>
               IF call.content = <<>> /\ Fetched(call.message, call.fetch_ok) = <<>>
               THEN call.result = Err("MessageCreate")
               ELSE /\ call.result.variant = "Ok"
                    /\ call.result.value.attachments = Fetched(call.message, call.fetch_ok)

\* of two attachments the first could not be fetched: the duplicate has the
\* second
C25_Witness ==
    /\ Duplicated
    /\ call.message.attachments = <<1, 2>>
    /\ call.fetch_ok = {2}
    /\ call.result.variant = "Ok"
    /\ call.result.value.attachments = <<2>>

(***************************************************************************)
(* Properties of what the Manager keeps of the messages it has sent.       *)
(***************************************************************************)
\* the messages the Manager holds of those its bots have sent in the
\* channel: the Manager has no field for them, and proxy_message drops the
\* message duplicate_message returns
send_cache == None

\* the duplicate created by the run of the message handled last
DuplicateCreated == [member |-> rest_log[1].member, content |-> rest_log[1].content]

\* C27: after a successful proxy run for a source in the channel the
\* send-cache entry of the channel is the duplicate just created; after a
\* run that failed the send-cache is as it was.
C27_SendCacheHoldsDuplicate ==
    [][MessageStep =>
          IF ProxySucceeded'
          THEN send_cache' = Some(DuplicateCreated')
          ELSE send_cache' = send_cache]_vars

(***************************************************************************)
(* Properties of the arms of the aggregator.                               *)
(***************************************************************************)
\* the aggregator receives the event at the head of its input in this step
Receives(kind) ==
    /\ agg_pc = "recv" /\ rx # <<>> /\ rx' = Tail(rx)
    /\ Head(rx).message.kind = kind

\* the cache entry of message id
Cached(cache, id) == CacheLookup(cache, id)

\* C28: when the aggregator handles Complete(full, observer) it sends
\* NewMessage(timestamp, full, observer) and makes (full, observer) the cache
\* entry of full.id if and only if the cache has no entry for the id or the
\* effective timestamp of the cached message is strictly less than that of
\* full; otherwise it sends nothing and the cached message and observer of
\* the id stay as they were.
C28_CompleteEmitsIffNewer ==
    [][Receives("Complete") =>
          LET timestamp == Head(rx).timestamp
              full == Head(rx).message.message
              observer == Head(rx).message.member_id
              cached == Cached(message_cache, full.id)
              newer == \/ cached = None
                       \/ EffectiveTimestamp(Unwrap(cached).message)
                              < EffectiveTimestamp(full)
          IN  IF newer
              THEN /\ sent_new' = [sent_new EXCEPT ![full.id] =
                                      Append(@, NewMessage(timestamp, full, observer))]
                   /\ Cached(message_cache', full.id) =
                          Some([id |-> full.id, message |-> full, member_id |-> observer])
              ELSE /\ sent_new' = sent_new
                   /\ Cached(message_cache', full.id) = cached]_vars

\* every bot has forwarded a message and its edit, the aggregator has handled
\* them all: one NewMessage for the original, one for the edit that replaced
\* it in the cache, nothing for what the other bot reported
C28_Witness ==
    /\ AggIdle
    /\ \A member_id \in Members : seen[member_id] = Len(world)
    /\ \E id \in MessageIds :
          /\ Len(sent_new[id]) = 2
          /\ sent_new[id][2].message.edited_timestamp # None
          /\ Cached(message_cache, id) # None
          /\ Unwrap(Cached(message_cache, id)).message = sent_new[id][2].message

\* the aggregator puts the overlay it holds into its own input in this step
Resubmits == agg_pc = "send_self" /\ agg_pc' = "recv"

\* C29: when a Partial update hits the cache, the Complete the aggregator
\* builds carries the observer id stored with the cached original, whichever
\* bot reported the edit; it is resubmitted as it is; and the NewMessage and
\* the cache entry that come of a Complete carry the observer id of that
\* Complete.
C29_OverlayKeepsCachedObserver ==
    [][/\ Receives("Partial") =>
             LET current_partial == Head(rx).message.message
                 cached == Cached(message_cache, current_partial.id)
             IN  cached # None =>
                    /\ agg_pending' # None
                    /\ Unwrap(agg_pending').message.kind = "Complete"
                    /\ Unwrap(agg_pending').message.member_id = Unwrap(cached).member_id
                    /\ Unwrap(agg_pending').message.message.id = current_partial.id
       /\ Resubmits => rx' = Append(rx, Unwrap(agg_pending))
       /\ Receives("Complete") =>
             LET id == Head(rx).message.message.id
             IN  SendsNewMessage(id) =>
                    /\ SentNow(id).member_id = Head(rx).message.member_id
                    /\ Unwrap(Cached(message_cache', id)).member_id
                          = Head(rx).message.member_id]_vars

\* the bot of member 1 alone has reported the edit of a message that bot 0
\* reported first: the NewMessage of the edit and the cache entry name bot 0
C29_Witness ==
    \E id \in MessageIds :
        /\ Len(sent_new[id]) = 2
        /\ sent_new[id][1].member_id = 0
        /\ sent_new[id][2].message.edited_timestamp # None
        /\ sent_new[id][2].member_id = 0
        /\ LastEdit(id, Len(world)) > seen[0]
        /\ Cached(message_cache, id) # None
        /\ Unwrap(Cached(message_cache, id)).member_id = 0

(***************************************************************************)
(* Properties of the member patterns of the parser.                        *)
(***************************************************************************)
\* the member pattern that matches the message parse was applied to, if any
PatternFound == matches_prefix(Authored(2, ReferenceUser, call.content), call.system_config, 0)

\* parse was applied to a message that is no escape and no command and that
\* a member pattern matches
PatternParsed ==
    /\ Parsed
    /\ ~StartsWith(call.content, <<Backslash>>)
    /\ ~StartsWith(call.content, <<"!">>)
    /\ PatternFound # None

\* C30: when a member pattern matches, the trimmed content capture decides:
\* "*" gives Command(Reproxy(member, secondary.id)), any other non-empty
\* capture gives ProxiedMessage of the member with the capture and latch
\* true, the empty capture gives SetProxyAndDelete(member).
C30_CaptureDecidesOutcome ==
    PatternParsed =>
        LET member_id == Unwrap(PatternFound).member_id
            matched_content == Unwrap(PatternFound).matched_content
        IN  IF Trim(matched_content) = <<"*">>
            THEN /\ call.secondary_message # None
                 /\ call.result =
                        Command(Reproxy(member_id, Unwrap(call.secondary_message).id))
            ELSE IF Trim(matched_content) # <<>>
            THEN call.result = ProxiedMessage(member_id, matched_content, TRUE)
            ELSE call.result = SetProxyAndDelete(member_id)

\* C31: the content of a ProxiedMessage that comes of a member pattern is the
\* content capture without its leading and trailing whitespace.
C31_ProxiedContentIsTrimmed ==
    (PatternParsed /\ call.result.variant = "ProxiedMessage") =>
        call.result.message_content = Trim(Unwrap(PatternFound).matched_content)

(***************************************************************************)
(* Properties of the commands of the parser.                               *)
(***************************************************************************)
\* parse was applied to a command message
CommandParsed == Parsed /\ StartsWith(call.content, <<"!">>)

\* the first word behind the "!" and the word behind it
FirstWord == NextWord(Some(Tail(call.content)))
SecondWord == NextWord(FirstWord.remainder)

\* the letters of the messages
Letters == {"a", "b", "d", "e", "h", "i", "n", "o", "p", "r", "s", "t", "x", "y", "z"}

\* the first word is none of the command names: not edit, nick or reproxy,
\* and not an "s" followed by a separator
Unrecognised ==
    /\ FirstWord.word # None
    /\ Unwrap(FirstWord.word) \notin
           {<<"e", "d", "i", "t">>, <<"n", "i", "c", "k">>,
            <<"r", "e", "p", "r", "o", "x", "y">>}
    /\ \/ Head(Unwrap(FirstWord.word)) # "s"
       \/ /\ Len(Unwrap(FirstWord.word)) > 1
          /\ Unwrap(FirstWord.word)[2] \in Letters

\* a nick or reproxy command whose mention is no member with a resolved user id
UnresolvedMention ==
    /\ FirstWord.word \in {Some(<<"n", "i", "c", "k">>),
                           Some(<<"r", "e", "p", "r", "o", "x", "y">>)}
    /\ match_member(SecondWord.word, call.system_config) = None

\* C32: a command whose first word is not a command name, first words that
\* only begin with the letter s included, is classified UnknownCommand, and
\* so is a nick or reproxy command whose mention does not resolve to a
\* member with a resolved user id.
C32_UnrecognisedIsUnknownCommand ==
    (CommandParsed /\ (Unrecognised \/ UnresolvedMention)) =>
        call.result = Command(UnknownCommand)

(***************************************************************************)
(* Properties of the gateway listeners.                                    *)
(***************************************************************************)
\* the system events the listener of member_id sends in this step
SystemEventsSent(member_id) ==
    IF Len(system_channel') > Len(system_channel)
    THEN SelectSeq(SubSeq(system_channel', Len(system_channel) + 1, Len(system_channel')),
                   LAMBDA event : event.member_id = member_id)
    ELSE <<>>

\* the listener of member_id sends a message event in this step
MessageEventSent(member_id) ==
    /\ Len(rx') > Len(rx)
    /\ rx'[Len(rx')].message.member_id = member_id

\* C33: on a gateway error that is not fatal the listener of a bot sends
\* GatewayError and keeps listening; on a fatal error it sends
\* GatewayClosed(member) once and terminates: from then on it sends no
\* system event and no message event.
C33_FatalErrorEndsListener ==
    [][\A member_id \in Members :
          /\ gateways[member_id] = "closed" =>
                /\ gateways'[member_id] = "closed"
                /\ SystemEventsSent(member_id) = <<>>
                /\ ~MessageEventSent(member_id)
          /\ (gateways[member_id] = "listening" /\ SystemEventsSent(member_id) # <<>>) =>
                IF gateways'[member_id] = "closed"
                THEN SystemEventsSent(member_id)
                        = <<GatewayError(member_id), GatewayClosed(member_id)>>
                ELSE SystemEventsSent(member_id) = <<GatewayError(member_id)>>
          /\ (gateways[member_id] = "listening" /\ gateways'[member_id] = "closed") =>
                SystemEventsSent(member_id) # <<>>]_vars

\* the gateway of bot 0 had a fatal error before the reference user posted,
\* that of bot 1 an error that was not fatal: bot 1 alone has forwarded
C33_Witness ==
    /\ gateways[0] = "closed" /\ gateways[1] = "listening"
    /\ system_channel = <<GatewayError(0), GatewayClosed(0), GatewayError(1)>>
    /\ seen[0] = 0 /\ seen[1] = Len(world) /\ Len(world) > 0
    /\ \A i \in DOMAIN rx : rx[i].message.member_id = 1

(***************************************************************************)
(* Properties of the latch and its timers.                                 *)
(***************************************************************************)
\* an AutoproxyTimeout with the timestamp of the latch is scheduled and not
\* yet handled
TimeoutPending == latch_state # None => Sleeping(Unwrap(latch_state).timestamp)

LatchValues == {Latched(member, timestamp) : member \in Members, timestamp \in 0 .. MaxTs}

\* C34: whenever the latch is Latched(m, ts) an AutoproxyTimeout(ts) is
\* scheduled and not yet handled, so a latch that no further message
\* updates eventually becomes Off.
C34_LatchEventuallyOff ==
    /\ []TimeoutPending
    /\ \A latch \in LatchValues : (latch_state = latch) ~> (latch_state # latch)

\* the same while the event loop of the Manager is running
LatchOffWhileRunning ==
    /\ []TimeoutPending
    /\ \A latch \in LatchValues :
          (latch_state = latch) ~> (latch_state # latch \/ mgr_pc # "running")

\* C35: when the autoproxy policy is absent or Member{name} the latch is
\* Off in every reachable state: no message, command or timer event sets it.
C35_LatchOffWithoutLatchPolicy == autoproxy.mode \in {"none", "member"} => latch_state = None

\* under a Member policy a message with the prefix of member 0 has been
\* proxied, the arm that updates the autoproxy state after the message
C35_Witness ==
    /\ autoproxy.mode = "member"
    /\ handled = Handled("NewMessage", 1, <<"A", ":", "h">>)
    /\ duplicate_visible /\ ~source_visible
    /\ mgr_pc = "running"
    /\ latch_state = None /\ timers = <<>>

(***************************************************************************)
(* Properties of the aggregator task.                                      *)
(***************************************************************************)
\* C36: the aggregator never blocks forever: a resubmission of an overlaid
\* Complete to its own bounded input completes, also while the bots keep
\* filling that input, and the aggregator goes on to receive.
C36_ResubmissionCompletes == (agg_pc = "send_self") ~> (agg_pc = "recv")

(***************************************************************************)
(* Properties of the count of connected gateways.                          *)
(***************************************************************************)
\* C39: the Manager's count of connected gateways stays between 0 and the
\* number of members for every sequence of GatewayConnected and
\* GatewayClosed events, and the startup presence update is scheduled only
\* when every member is connected.
C39_CountWithinMembers ==
    /\ [](num_connected \in 0 .. NumMembers)
    /\ [][startup_tasks' > startup_tasks => connected_members' = Members]_vars

(***************************************************************************)
(* Properties of the locks.                                                *)
(***************************************************************************)
\* C37: once the aggregator task runs, a call of get_sender or
\* set_system_handler returns without waiting for a message event to arrive
\* on the aggregator's input: the aggregator does not hold the lock of its
\* state while it waits for input.
C37_CallNeverWaitsForInput ==
    ~(api_call # None /\ state_lock = "aggregator" /\ rx = <<>>)

\* C38: a set_status call on a bot whose listener is running returns without
\* waiting for the gateway of that bot to deliver its next event.
C38_SetStatusNeverWaitsForGateway ==
    status_call # None =>
        LET member_id == Unwrap(status_call).member_id
        IN  ~(/\ gateways[member_id] = "listening"
              /\ Unwrap(status_call).status # last_status[member_id]
              /\ shard_lock[member_id] = "listener"
              /\ seen[member_id] = Len(world))
====
